---- MODULE Spec2Model ----
(***************************************************************************)
(* State-machine model of the MuJoCo plugins of this repository:           *)
(*   - Inspector  (my_plugins/inspector/src/inspector.cc)                  *)
(*   - Spring     (my_plugins/damper/spring_damper.cc)                     *)
(*   - PdFf       (my_plugins/controller/ctrl_pdff.cc)                     *)
(*   - ControllerInterface (my_plugins/inspector/src/controller_interface.cpp) *)
(*                                                                         *)
(* One plugin instance slot (d->plugin_data[instance]) is modelled; the    *)
(* loaded scene decides which plugin owns it.  Real numbers are rendered   *)
(* in fixed point: simulation time in ticks of 1/TimeScale second, spring  *)
(* directions in units of 1/UnitScale.                                     *)
(***************************************************************************)
EXTENDS Integers, Sequences, FiniteSets, TLC

VARIABLES
  scene,     \* which component the loaded scene exercises
  attr,      \* the instance's <config> attributes, as mj_getPluginConfig returns them
  m,         \* mjModel: static description of the scene
  d,         \* mjData: time, plugin_data[instance] and the per-step arrays
  obj,       \* the heap object the slot points to (NoObj when none)
  ci,        \* the ControllerInterface object
  sink,      \* every line EmitLine has written, with the stream it went to
  fs,        \* the C runtime's files: the open handles, the handles fclose was given
  crashed,   \* the process faulted (null dereference)
  build,     \* what the build made of the code's undefined behaviour
  ev,        \* the last callback the host invoked and what it did
  hist       \* history: init count, compute count, log of Inspector::Compute calls

vars == <<scene, attr, m, d, obj, ci, sink, fs, crashed, build, ev, hist>>

-----------------------------------------------------------------------------
(* Bounds *)
MaxCalls == 3      \* compute callbacks per run
MaxResets == 1     \* mj_resetData calls per run
MaxTime == 11      \* last simulation tick the host steps to
NSensor == 2       \* sensors in a scene of the controller interface
MaxLoads == 1      \* models the host loads after the first one, per run

(* Fixed-point scales: the integer that stands for the double 1.0 *)
TimeScale == 100   \* in simulation time (ticks per second)
LenScale == 10     \* in lengths, positions and velocities
UnitScale == 5     \* in the components of a unit direction vector
GainScale == 2     \* in the gains kp, kd

NoAttr == "<null>"     \* mj_getPluginConfig returned NULL
NoObj == [kind |-> "none"]
nullopt == [has |-> FALSE]          \* std::nullopt
Some(x) == [has |-> TRUE, v |-> x]    \* an engaged std::optional
STDOUT == "stdout"

Scenes == {"inspector", "spring", "pdff", "controller"}

\* What a callback reports in ev
Event(cb, ret, deref, nclosed) ==
  [cb |-> cb, ret |-> ret, deref |-> deref, nclosed |-> nclosed,
   slot |-> d.plugin_data]        \* the slot when the callback was entered

-----------------------------------------------------------------------------
(* Attribute readers *)

\* std::strtod on the attribute strings the scenes use: the value as a
\* fraction <<numerator, denominator>>
StrToFrac(s) ==
  CASE s = "0" -> <<0, 1>>
    [] s = "-5" -> <<-5, 1>>
    [] s = "-1.0" -> <<-1, 1>>
    [] s = "0.5" -> <<1, 2>>
    [] s = "1.0" -> <<1, 1>>
    [] s = "2.0" -> <<2, 1>>
    [] s = "10" -> <<10, 1>>
    [] s = "20" -> <<20, 1>>
    [] OTHER -> <<0, 1>>        \* no digits: strtod returns 0

\* the double strtod returns, in fixed point with `scale` units per 1.0
StrToD(s, scale) == (StrToFrac(s)[1] * scale) \div StrToFrac(s)[2]

ReadStringAttr(key) ==
  LET v == attr[key] IN IF v = NoAttr \/ v = "" THEN nullopt ELSE Some(v)

ReadDoubleAttr(key, scale) ==
  LET v == attr[key] IN
    IF v = NoAttr \/ v = "" THEN nullopt ELSE Some(StrToD(v, scale))

value_or(opt, dflt) == IF opt.has THEN opt.v ELSE dflt

-----------------------------------------------------------------------------
(* Inspector *)

DefaultRate == 10                 \* rate_hz when the attribute is absent
NoEmitYet == -1 * TimeScale       \* last_emit_time_ = -1.0
NULL == "<nullptr>"
DefaultLog == "inspector.log"

\* Inspector::Inspector
Inspector(config, file_handle) ==
  [kind |-> "Inspector", config_ |-> config, file_ |-> file_handle,
   header_emitted_ |-> FALSE, last_emit_time_ |-> NoEmitYet]

InspectorConfig ==
  [mode |-> ReadStringAttr("mode"),
   file |-> ReadStringAttr("file"),
   rate_hz |-> value_or(ReadDoubleAttr("rate", 1), DefaultRate)]

\* cfg.mode && *cfg.mode == "file"
ModeIsFile(cfg) == cfg.mode.has /\ cfg.mode.v = "file"

\* Inspector::Create opening a file for every mode that is set
InspectorCreateAnyMode(fopen_ok) ==
  LET cfg == InspectorConfig
      path == IF cfg.file.has THEN cfg.file.v ELSE DefaultLog
  IN IF cfg.mode.has
       THEN IF fopen_ok
              THEN [obj |-> Inspector(cfg, path), opened |-> {path}]
              ELSE [obj |-> NoObj, opened |-> {}]
       ELSE [obj |-> Inspector(cfg, NULL), opened |-> {}]

\* Inspector::Create; fopen_ok is whether std::fopen succeeds.
\* Yields the new object (NoObj for nullptr) and the handle it opened.
InspectorCreate(fopen_ok) ==
  LET cfg == InspectorConfig
      path == IF cfg.file.has THEN cfg.file.v ELSE DefaultLog
  IN IF ModeIsFile(cfg)
       THEN IF fopen_ok
              THEN [obj |-> Inspector(cfg, path), opened |-> {path}]
              ELSE [obj |-> NoObj, opened |-> {}]
       ELSE [obj |-> Inspector(cfg, NULL), opened |-> {}]

\* Inspector::EmitLine: the stream the line goes to, and the line
EmitLine(o, line) ==
  [to |-> IF ModeIsFile(o.config_) THEN o.file_ ELSE STDOUT, line |-> line]

\* Inspector::EmitHeaderOnce without the header_emitted_ test
EmitHeaderEveryTime(o) ==
  << EmitLine(o, <<"#", "inspector">>),
     EmitLine(o, <<"#", "joints">>),
     EmitLine(o, <<"#", "sensors">>) >>

\* Inspector::EmitHeaderOnce: the lines it emits
EmitHeaderOnce(o) ==
  IF o.header_emitted_ THEN <<>>
  ELSE << EmitLine(o, <<"#", "inspector">>),
          EmitLine(o, <<"#", "joints">>),
          EmitLine(o, <<"#", "sensors">>) >>

dofnum(jtype) ==
  IF jtype = "HINGE" \/ jtype = "SLIDE" THEN 1
  ELSE IF jtype = "BALL" THEN 3
  ELSE IF jtype = "FREE" THEN 6 ELSE 0

\* Inspector::EmitJoints: one line per scalar joint, in joint order
RECURSIVE EmitJointsFrom(_, _)
EmitJointsFrom(o, j) ==
  IF j > m.njnt THEN <<>>
  ELSE (IF dofnum(m.jnt_type[j]) = 1 THEN << EmitLine(o, <<"J", j>>) >> ELSE <<>>)
       \o EmitJointsFrom(o, j + 1)

EmitJoints(o) == EmitJointsFrom(o, 1)

\* Inspector::EmitSensors: one line per sensor, in sensor order
EmitSensors(o) == [s \in 1..m.nsensor |-> EmitLine(o, <<"S", s>>)]

\* RateLimited with the comparison off by one (<= for <)
RateLimitedInclusive(o) ==
  /\ o.last_emit_time_ >= 0
  /\ o.config_.rate_hz > 0
  /\ d.time * o.config_.rate_hz <= o.last_emit_time_ * o.config_.rate_hz + TimeScale

\* The rate limit of Inspector::Compute: time < last_emit_time_ + 1/rate_hz,
\* compared exactly after multiplying by rate_hz (> 0)
RateLimited(o) ==
  /\ o.last_emit_time_ >= 0
  /\ o.config_.rate_hz > 0
  /\ d.time * o.config_.rate_hz < o.last_emit_time_ * o.config_.rate_hz + TimeScale

\* Inspector::Compute recording the call time before the rate check
InspectorComputeStampFirst(o) ==
  LET o1 == [o EXCEPT !.last_emit_time_ = d.time] IN
  IF RateLimited(o) THEN [obj |-> o1, lines |-> <<>>]
  ELSE [obj |-> [o1 EXCEPT !.header_emitted_ = TRUE],
        lines |-> EmitHeaderOnce(o) \o << EmitLine(o, <<"t", d.time>>) >>
                    \o EmitJoints(o) \o EmitSensors(o)]

\* Inspector::Compute storing the period it derived back into the
\* configuration: a rate that is not positive becomes 0
InspectorComputeClampsRate(o) ==
  LET c == [o.config_ EXCEPT !.rate_hz = IF @ > 0 THEN @ ELSE 0] IN
  IF RateLimited(o) THEN [obj |-> o, lines |-> <<>>]
  ELSE [obj |-> [o EXCEPT !.config_ = c, !.last_emit_time_ = d.time,
                          !.header_emitted_ = TRUE],
        lines |-> EmitHeaderOnce(o) \o << EmitLine(o, <<"t", d.time>> ) >>
                    \o EmitJoints(o) \o EmitSensors(o)]

\* Inspector::Compute: the object after the call and the lines emitted
InspectorComputeBody(o) ==
  IF RateLimited(o) THEN [obj |-> o, lines |-> <<>>]
  ELSE [obj |-> [o EXCEPT !.last_emit_time_ = d.time, !.header_emitted_ = TRUE],
        lines |-> EmitHeaderOnce(o) \o << EmitLine(o, <<"t", d.time>>) >>
                    \o EmitJoints(o) \o EmitSensors(o)]

-----------------------------------------------------------------------------
(* Spring *)

DefaultStiffness == 100
DefaultDamping == 10
DefaultRestLength == -1 * LenScale

sub3(a, b) == [i \in 1..3 |-> a[i] - b[i]]
dot3(a, b) == a[1] * b[1] + a[2] * b[2] + a[3] * b[3]
scl3(a, k) == [i \in 1..3 |-> a[i] * k]
Zero3 == <<0, 0, 0>>

\* mju_norm3: the length of v (the scenes' vectors have integer lengths)
mju_norm3(v) ==
  LET s == dot3(v, v) IN CHOOSE n \in 0..s : n * n <= s /\ (n + 1) * (n + 1) > s

\* mju_normalize3: the length, and v scaled to unit length; a vector shorter
\* than mjMINVAL becomes the x axis
mju_normalize3(v) ==
  LET n == mju_norm3(v) IN
    [norm |-> n,
     vec |-> IF n = 0 THEN <<UnitScale, 0, 0>>
             ELSE [i \in 1..3 |-> (v[i] * UnitScale) \div n]]

\* mj_name2id(m, mjOBJ_BODY, name): the body's id, or -1
mj_name2id_body(name) ==
  IF \E i \in 0..(m.nbody - 1) : m.body_name[i] = name
    THEN CHOOSE i \in 0..(m.nbody - 1) : m.body_name[i] = name
    ELSE -1

\* SpringConfig::FromModel without the test of body1_id
SpringConfigFromModelBody2Only ==
  LET stiffness == value_or(ReadDoubleAttr("stiffness", 1), DefaultStiffness)
      damping == value_or(ReadDoubleAttr("damping", 1), DefaultDamping)
      rest_length == value_or(ReadDoubleAttr("restlength", LenScale),
                              DefaultRestLength)
      body1_name == ReadStringAttr("body1")
      body2_name == ReadStringAttr("body2")
  IN IF ~body1_name.has \/ ~body2_name.has THEN nullopt
     ELSE LET body1_id == mj_name2id_body(body1_name.v)
              body2_id == mj_name2id_body(body2_name.v)
          IN IF body2_id < 0 THEN nullopt
             ELSE Some([stiffness |-> stiffness, damping |-> damping,
                        rest_length |-> rest_length,
                        body1_id |-> body1_id, body2_id |-> body2_id])

\* SpringConfig::FromModel
SpringConfigFromModel ==
  LET stiffness == value_or(ReadDoubleAttr("stiffness", 1), DefaultStiffness)
      damping == value_or(ReadDoubleAttr("damping", 1), DefaultDamping)
      rest_length == value_or(ReadDoubleAttr("restlength", LenScale),
                              DefaultRestLength)
      body1_name == ReadStringAttr("body1")
      body2_name == ReadStringAttr("body2")
  IN IF ~body1_name.has \/ ~body2_name.has THEN nullopt
     ELSE LET body1_id == mj_name2id_body(body1_name.v)
              body2_id == mj_name2id_body(body2_name.v)
          IN IF body1_id < 0 \/ body2_id < 0 THEN nullopt
             ELSE Some([stiffness |-> stiffness, damping |-> damping,
                        rest_length |-> rest_length,
                        body1_id |-> body1_id, body2_id |-> body2_id])

\* Spring::Create with Spring::Spring
SpringCreate ==
  LET config == SpringConfigFromModel IN
    IF ~config.has THEN NoObj ELSE [kind |-> "Spring", config_ |-> config.v]

VelBufferLen == 3        \* mjtNum vel1[3], vel2[3]

\* mj_objectVelocity(m, d, mjOBJ_BODY, id, res, 0): the six numbers it writes
\* to res, rotational part first, then linear (world orientation)
mj_objectVelocity(id) == d.vel6[id]

Head3(v6) == <<v6[1], v6[2], v6[3]>>
Tail3(v6) == <<v6[4], v6[5], v6[6]>>

\* mju_addTo / mju_subFrom storing the vector instead of adding it
AddForceOverwrite(xfrc, body, f) ==
  [xfrc EXCEPT ![body] = [k \in 1..6 |-> IF k <= 3 THEN f[k] ELSE @[k]]]

\* mju_addTo / mju_subFrom on the first three components of a body's row
AddForce(xfrc, body, f) ==
  [xfrc EXCEPT ![body] = [k \in 1..6 |-> IF k <= 3 THEN @[k] + f[k] ELSE @[k]]]

\* The locals of Spring::Compute with a rest length of 0 taken as unset
SpringLocalsZeroUnset(o) ==
  LET b1 == o.config_.body1_id
      b2 == o.config_.body2_id
      n == mju_normalize3(sub3(d.xpos[b2], d.xpos[b1]))
      over == Tail3(mj_objectVelocity(b2))
      vec == IF build.spill = "vec"
               THEN [i \in 1..3 |-> (over[i] * UnitScale) \div LenScale]
               ELSE n.vec
      rest_length ==
        IF o.config_.rest_length <= 0
          THEN mju_norm3(sub3(m.body_pos[b2], m.body_pos[b1]))
          ELSE o.config_.rest_length
      hooke == IF build.spill = "force_magnitude"
                 THEN over[1] * UnitScale
                 ELSE o.config_.stiffness * (n.norm - rest_length) * UnitScale
      vel1 == IF build.spill = "vel1" THEN over
              ELSE Head3(mj_objectVelocity(b1))
      vel2 == Head3(mj_objectVelocity(b2))
      vel_along_spring == dot3(sub3(vel2, vel1), vec)
      force_magnitude == hooke + o.config_.damping * vel_along_spring
  IN [distance |-> n.norm, vec |-> vec, rest_length |-> rest_length,
      force_magnitude |-> force_magnitude,
      force_vec |-> scl3(vec, force_magnitude)]

\* The locals of Spring::Compute. vel1 and vel2 hold three numbers and
\* mj_objectVelocity writes six: the last three land past the buffer, and
\* build.spill says what the stack layout put there.
SpringLocals(o) ==
  LET b1 == o.config_.body1_id
      b2 == o.config_.body2_id
      n == mju_normalize3(sub3(d.xpos[b2], d.xpos[b1]))
      over == Tail3(mj_objectVelocity(b2))
      vec == IF build.spill = "vec"
               THEN [i \in 1..3 |-> (over[i] * UnitScale) \div LenScale]
               ELSE n.vec
      rest_length ==
        IF o.config_.rest_length < 0
          THEN mju_norm3(sub3(m.body_pos[b2], m.body_pos[b1]))
          ELSE o.config_.rest_length
      hooke == IF build.spill = "force_magnitude"
                 THEN over[1] * UnitScale
                 ELSE o.config_.stiffness * (n.norm - rest_length) * UnitScale
      vel1 == IF build.spill = "vel1" THEN over
              ELSE Head3(mj_objectVelocity(b1))
      vel2 == Head3(mj_objectVelocity(b2))
      vel_along_spring == dot3(sub3(vel2, vel1), vec)
      force_magnitude == hooke + o.config_.damping * vel_along_spring
  IN [distance |-> n.norm, vec |-> vec, rest_length |-> rest_length,
      force_magnitude |-> force_magnitude,
      force_vec |-> scl3(vec, force_magnitude)]

\* Spring::Compute adding the force to both bodies
SpringComputeSameSign(o) ==
  LET f == SpringLocals(o).force_vec IN
    AddForce(AddForce(d.xfrc_applied, o.config_.body1_id, f),
             o.config_.body2_id, f)

\* Spring::Compute: d->xfrc_applied after the call
SpringComputeBody(o) ==
  LET f == SpringLocals(o).force_vec IN
    AddForce(AddForce(d.xfrc_applied, o.config_.body1_id, f),
             o.config_.body2_id, scl3(f, -1))

\* plugin.init of Spring::RegisterPlugin
SpringInit ==
  /\ scene = "spring" /\ ~crashed
  /\ d.plugin_data = 0
  /\ hist.ninit = 0
  /\ LET spring == SpringCreate IN
       IF spring = NoObj
         THEN /\ ev' = Event("init", -1, FALSE, 0)
              /\ UNCHANGED <<d, obj>>
         ELSE /\ obj' = spring
              /\ d' = [d EXCEPT !.plugin_data = 1]
              /\ ev' = Event("init", 0, FALSE, 0)
  /\ hist' = [hist EXCEPT !.ninit = @ + 1]
  /\ UNCHANGED <<scene, attr, m, build, ci, sink, fs, crashed>>

\* plugin.destroy of Spring::RegisterPlugin: delete of a null pointer does nothing
SpringDestroy ==
  /\ scene = "spring" /\ ~crashed
  /\ ev' = Event("destroy", 0, FALSE, 0)
  /\ obj' = NoObj
  /\ d' = [d EXCEPT !.plugin_data = 0]
  /\ UNCHANGED <<scene, attr, m, build, ci, sink, fs, crashed, hist>>

\* plugin.compute of Spring::RegisterPlugin, with Spring::Compute
SpringCompute ==
  /\ scene = "spring" /\ ~crashed
  /\ hist.ncompute < MaxCalls
  /\ IF d.plugin_data = 0
       THEN /\ crashed' = TRUE
            /\ hist' = [hist EXCEPT !.ncompute = @ + 1]
            /\ UNCHANGED d
       ELSE /\ d' = [d EXCEPT !.xfrc_applied = SpringComputeBody(obj)]
            /\ crashed' = (build.spill = "crash")
            /\ hist' = [hist EXCEPT !.ncompute = @ + 1,
                          !.calls = Append(@,
                             [t |-> d.time,
                              rest_length |-> SpringLocals(obj).rest_length])]
  /\ ev' = Event("compute", 0, TRUE, 0)
  /\ UNCHANGED <<scene, attr, m, build, obj, ci, sink, fs>>

-----------------------------------------------------------------------------
(* PdFf *)

instance == 0        \* the index of the modelled plugin instance

\* the characters of the strings the scenes use
Chars(str) ==
  CASE str = "a_qref" -> <<"a", "_", "q", "r", "e", "f">>
    [] str = "a_qdref" -> <<"a", "_", "q", "d", "r", "e", "f">>
    [] str = "a_tau" -> <<"a", "_", "t", "a", "u">>
    [] str = "a_other" -> <<"a", "_", "o", "t", "h", "e", "r">>
    [] str = "B:QREF" -> <<"B", ":", "Q", "R", "E", "F">>
    [] str = "_qref" -> <<"_", "q", "r", "e", "f">>
    [] str = ":qref" -> <<":", "q", "r", "e", "f">>
    [] str = "_qdref" -> <<"_", "q", "d", "r", "e", "f">>
    [] str = ":qdref" -> <<":", "q", "d", "r", "e", "f">>
    [] str = "_tau" -> <<"_", "t", "a", "u">>
    [] str = ":tau" -> <<":", "t", "a", "u">>
    [] str = "zz" -> <<"z", "z">>
    [] OTHER -> <<>>

\* std::tolower
tolower(c) ==
  CASE c = "A" -> "a" [] c = "B" -> "b" [] c = "D" -> "d" [] c = "E" -> "e"
    [] c = "F" -> "f" [] c = "Q" -> "q" [] c = "R" -> "r" [] c = "T" -> "t"
    [] c = "U" -> "u" [] OTHER -> c

\* EndsWithLower
EndsWithLower(name, suffix) ==
  LET n == Chars(name)
      x == Chars(suffix)
  IN IF Len(x) > Len(n) THEN FALSE
     ELSE \A i \in 1..Len(x) : tolower(n[Len(n) - Len(x) + i]) = tolower(x[i])

\* ActName: the actuator's name, empty when mj_id2name returns null
ActName(act_id) ==
  IF m.actuator_name[act_id] = NoAttr THEN "" ELSE m.actuator_name[act_id]

Owned(i) == m.actuator_plugin[i] = instance

\* the first actuator of this instance among the indices in S, or -1
FirstOwned(S) ==
  IF \E i \in S : Owned(i)
    THEN CHOOSE i \in S :
           /\ Owned(i)
           /\ \A j \in S : j < i => ~Owned(j)
    ELSE -1

\* the classification loop of PdFf::Create, from actuator i on
RECURSIVE ClassifyFrom(_, _)
ClassifyFrom(i, ids) ==
  IF i >= m.nu THEN ids
  ELSE IF ~Owned(i) THEN ClassifyFrom(i + 1, ids)
  ELSE LET name == ActName(i) IN
    IF EndsWithLower(name, "_qref") \/ EndsWithLower(name, ":qref")
      THEN ClassifyFrom(i + 1, [ids EXCEPT !.id_qref = i])
    ELSE IF EndsWithLower(name, "_qdref") \/ EndsWithLower(name, ":qdref")
      THEN ClassifyFrom(i + 1, [ids EXCEPT !.id_qdref = i])
    ELSE IF EndsWithLower(name, "_tau") \/ EndsWithLower(name, ":tau")
      THEN ClassifyFrom(i + 1, [ids EXCEPT !.id_tau = i])
    ELSE ClassifyFrom(i + 1, ids)

Classify == ClassifyFrom(0, [id_qref |-> -1, id_qdref |-> -1, id_tau |-> -1])

AnyActuator == 0..(m.nu - 1)

\* target selection with the first owned actuator preferred to the _tau one
SelectTargetFirstOwned(cfg, ids) ==
  IF cfg.target_actuator_name.has
    THEN LET Named == { i \in 0..(m.nu - 1) :
                          ActName(i) = cfg.target_actuator_name.v }
         IN FirstOwned(Named)
    ELSE FirstOwned(AnyActuator)

\* target selection looking up the configured name among all actuators
SelectTargetAnyOwner(cfg, ids) ==
  IF cfg.target_actuator_name.has
    THEN LET Named == { i \in 0..(m.nu - 1) :
                          ActName(i) = cfg.target_actuator_name.v }
         IN IF Named = {} THEN -1
            ELSE CHOOSE i \in Named : \A j \in Named : i <= j
    ELSE IF ids.id_tau >= 0 THEN ids.id_tau
    ELSE FirstOwned(AnyActuator)

\* the target selection of PdFf::Create
SelectTarget(cfg, ids) ==
  IF cfg.target_actuator_name.has
    THEN LET Named == { i \in 0..(m.nu - 1) :
                          ActName(i) = cfg.target_actuator_name.v }
         IN FirstOwned(Named)
    ELSE IF ids.id_tau >= 0 THEN ids.id_tau
    ELSE FirstOwned(AnyActuator)

\* PdFf::PdFf; dof_adr keeps its in-class initializer
PdFfObject(cfg, ids, id_target) ==
  [kind |-> "PdFf", config_ |-> cfg,
   id_qref_ |-> ids.id_qref, id_qdref_ |-> ids.id_qdref,
   id_tau_ |-> ids.id_tau, id_target_ |-> id_target,
   dof_adr |-> -1]

\* the null returns of PdFf::Create, without the test of id_qdref
PdFfRejectsNoQdref(ids, id_target) ==
  id_target < 0 \/ ids.id_qref < 0 \/ ids.id_tau < 0

\* the null returns of PdFf::Create
PdFfRejects(ids, id_target) ==
  id_target < 0 \/ ids.id_qref < 0 \/ ids.id_qdref < 0 \/ ids.id_tau < 0

\* PdFf::Create
PdFfCreate ==
  LET cfg == [kp |-> value_or(ReadDoubleAttr("kp", GainScale), 0),
              kd |-> value_or(ReadDoubleAttr("kd", GainScale), 0),
              target_actuator_name |-> ReadStringAttr("target")]
      ids == Classify
      id_target == SelectTarget(cfg, ids)
  IN IF PdFfRejects(ids, id_target) THEN NoObj
     ELSE PdFfObject(cfg, ids, id_target)

\* the control law of PdFf::Compute, in units of 1/(GainScale*LenScale)
PdFfTau(o) ==
  LET q_ref == d.ctrl[o.id_qref_]
      qd_ref == d.ctrl[o.id_qdref_]
      tau_ff == d.ctrl[o.id_tau_]
      q_meas == d.actuator_length[o.id_target_]
      qd_meas == d.actuator_velocity[o.id_target_]
      err == q_ref - q_meas
      err_dot == qd_ref - qd_meas
  IN o.config_.kp * err + o.config_.kd * err_dot + tau_ff * GainScale

\* PdFf::Compute without the two assignments of 0
PdFfComputeNoZero(o) ==
  [d.actuator_force EXCEPT ![o.id_target_] = @ + PdFfTau(o)]

\* PdFf::Compute: d->actuator_force after the call
PdFfComputeBody(o) ==
  LET f1 == [d.actuator_force EXCEPT ![o.id_target_] = @ + PdFfTau(o)]
      f2 == [f1 EXCEPT ![o.id_qref_] = 0]
  IN [f2 EXCEPT ![o.id_qdref_] = 0]

\* p.init of PdFf::RegisterPlugin
PdFfInit ==
  /\ scene = "pdff" /\ ~crashed
  /\ d.plugin_data = 0
  /\ hist.ninit = 0
  /\ LET o == PdFfCreate IN
       IF o = NoObj
         THEN /\ ev' = Event("init", -1, FALSE, 0)
              /\ UNCHANGED <<d, obj>>
         ELSE /\ obj' = o
              /\ d' = [d EXCEPT !.plugin_data = 1]
              /\ ev' = Event("init", 0, FALSE, 0)
  /\ hist' = [hist EXCEPT !.ninit = @ + 1]
  /\ UNCHANGED <<scene, attr, m, build, ci, sink, fs, crashed>>

\* p.destroy of PdFf::RegisterPlugin: delete of a null pointer does nothing
PdFfDestroy ==
  /\ scene = "pdff" /\ ~crashed
  /\ ev' = Event("destroy", 0, FALSE, 0)
  /\ obj' = NoObj
  /\ d' = [d EXCEPT !.plugin_data = 0]
  /\ UNCHANGED <<scene, attr, m, build, ci, sink, fs, crashed, hist>>

\* p.compute of PdFf::RegisterPlugin, with PdFf::Compute
PdFfCompute ==
  /\ scene = "pdff" /\ ~crashed
  /\ hist.ncompute < MaxCalls
  /\ IF d.plugin_data = 0
       THEN /\ crashed' = TRUE
            /\ UNCHANGED d
       ELSE /\ d' = [d EXCEPT !.actuator_force = PdFfComputeBody(obj)]
            /\ UNCHANGED crashed
  /\ ev' = Event("compute", 0, TRUE, 0)
  /\ hist' = [hist EXCEPT !.ncompute = @ + 1]
  /\ UNCHANGED <<scene, attr, m, build, obj, ci, sink, fs>>

-----------------------------------------------------------------------------
(* Callbacks of the Inspector *)

\* p.init of Inspector::RegisterPlugin
InspectorInit(fopen_ok) ==
  /\ scene = "inspector" /\ ~crashed
  /\ d.plugin_data = 0
  /\ hist.ninit = 0          \* the host calls init once per mjData
  /\ LET r == InspectorCreate(fopen_ok) IN
       IF r.obj = NoObj
         THEN /\ ev' = Event("init", -1, FALSE, 0)
              /\ UNCHANGED <<d, obj, fs>>
              /\ hist' = [hist EXCEPT !.ninit = @ + 1]
         ELSE /\ obj' = r.obj
              /\ d' = [d EXCEPT !.plugin_data = 1]
              /\ fs' = [fs EXCEPT !.open = @ \cup r.opened]
              /\ ev' = Event("init", 0, FALSE, 0)
              /\ hist' = [hist EXCEPT !.ninit = @ + 1, !.calls = <<>>]
  /\ UNCHANGED <<scene, attr, m, build, ci, sink, crashed>>

\* p.destroy without the `if (obj)` test
InspectorDestroyUnchecked ==
  IF d.plugin_data = 0
    THEN [deref |-> TRUE, fault |-> TRUE, closes |-> FALSE]
    ELSE [deref |-> TRUE, fault |-> FALSE,
          closes |-> ModeIsFile(obj.config_) /\ obj.file_ # NULL]

\* p.destroy that frees the object and never closes the file
InspectorDestroyNoClose ==
  [deref |-> d.plugin_data # 0, fault |-> FALSE, closes |-> FALSE]

\* What p.destroy of Inspector::RegisterPlugin does before `delete obj`:
\* whether it reads through the handle, faults, and closes obj->file_
InspectorDestroyEffect ==
  IF d.plugin_data # 0
    THEN [deref |-> TRUE, fault |-> FALSE,
          closes |-> ModeIsFile(obj.config_) /\ obj.file_ # NULL]
    ELSE [deref |-> FALSE, fault |-> FALSE, closes |-> FALSE]

\* p.destroy of Inspector::RegisterPlugin
InspectorDestroy ==
  /\ scene = "inspector" /\ ~crashed
  /\ LET e == InspectorDestroyEffect IN
       /\ crashed' = e.fault
       /\ fs' = IF e.closes
                  THEN [fs EXCEPT !.open = @ \ {obj.file_},
                                  !.closed = Append(@, obj.file_)]
                  ELSE fs
       /\ ev' = Event("destroy", 0, e.deref, IF e.closes THEN 1 ELSE 0)
       /\ obj' = IF e.fault THEN obj ELSE NoObj
       /\ d' = IF e.fault THEN d ELSE [d EXCEPT !.plugin_data = 0]
  /\ UNCHANGED <<scene, attr, m, build, ci, sink, hist>>

\* p.compute of Inspector::RegisterPlugin, with Inspector::Compute.
\* The callback dereferences the slot unchecked: on a null slot it faults.
InspectorCompute ==
  /\ scene = "inspector" /\ ~crashed
  /\ hist.ncompute < MaxCalls
  /\ IF d.plugin_data = 0
       THEN /\ crashed' = TRUE
            /\ ev' = Event("compute", 0, TRUE, 0)
            /\ hist' = [hist EXCEPT !.ncompute = @ + 1]
            /\ UNCHANGED <<obj, sink>>
       ELSE LET r == InspectorComputeBody(obj) IN
            /\ obj' = r.obj
            /\ sink' = sink \o r.lines
            /\ ev' = Event("compute", 0, TRUE, 0)
            /\ hist' = [hist EXCEPT !.ncompute = @ + 1,
                          !.calls = Append(@, [t |-> d.time,
                                               emitted |-> r.lines # <<>>])]
            /\ UNCHANGED crashed
  /\ UNCHANGED <<scene, attr, m, build, d, ci, fs>>

\* The host advances simulation time by one of its timesteps (mj_step)
HostStep(dt) ==
  /\ scene = "inspector" /\ ~crashed
  /\ d.plugin_data # 0 \/ hist.ninit = 0    \* the mjData is in use
  /\ d.time + dt <= MaxTime
  /\ d' = [d EXCEPT !.time = @ + dt]
  /\ ev' = Event("step", 0, FALSE, 0)
  /\ UNCHANGED <<scene, attr, m, build, obj, ci, sink, fs, crashed, hist>>

\* mj_resetData with a reset callback that forgets the last emission
HostResetClearsEmitTime ==
  /\ scene = "inspector" /\ ~crashed
  /\ d.plugin_data # 0 \/ hist.ninit = 0
  /\ d.time > 0
  /\ hist.nreset < MaxResets
  /\ d' = [d EXCEPT !.time = 0]
  /\ obj' = IF d.plugin_data # 0
              THEN [obj EXCEPT !.last_emit_time_ = NoEmitYet] ELSE obj
  /\ ev' = Event("reset", 0, FALSE, 0)
  /\ hist' = [hist EXCEPT !.nreset = @ + 1]
  /\ UNCHANGED <<scene, attr, m, build, ci, sink, fs, crashed>>

\* mj_resetData rewinds time to 0 and calls p.reset, which is empty
HostReset ==
  /\ scene = "inspector" /\ ~crashed
  /\ d.plugin_data # 0 \/ hist.ninit = 0    \* the mjData is in use
  /\ d.time > 0
  /\ hist.nreset < MaxResets
  /\ d' = [d EXCEPT !.time = 0]
  /\ ev' = Event("reset", 0, FALSE, 0)
  /\ hist' = [hist EXCEPT !.nreset = @ + 1]
  /\ UNCHANGED <<scene, attr, m, build, obj, ci, sink, fs, crashed>>

-----------------------------------------------------------------------------
(* ControllerInterface *)

\* x + x in a 32-bit int (two's complement)
Double32(x) ==
  IF x >= 2^30 THEN (x - 2^30 - 2^30) * 2
  ELSE IF x < 0 - 2^30 THEN (x + 2^30 + 2^30) * 2
  ELSE x * 2

\* x << n in a 32-bit int, for 0 <= n < 32
RECURSIVE Shl32(_, _)
Shl32(x, n) == IF n = 0 THEN x ELSE Shl32(Double32(x), n - 1)

\* `obj_type << 32 + obj_id`: + binds tighter than <<, so an int is shifted
\* by 32 + obj_id >= 32, which the language leaves undefined.  build.shift
\* is what the build makes of it: the shift count taken modulo 32, or 0.
MapId(obj_type, obj_id) ==
  IF build.shift = "mask" THEN Shl32(obj_type, (32 + obj_id) % 32) ELSE 0

mj_id2name(obj_type, obj_id) == m.name[<<obj_type, obj_id>>]

Buckets == {"joint", "imu", "frame", "effort"}
MapOf == [joint |-> "joint_sensor_map_", imu |-> "sensor_imu_map_",
          frame |-> "state_frame_map_", effort |-> "effort_sensor_map_"]
NameMapOf == [joint |-> "joint_sensor_idx_2_name_",
              imu |-> "imu_sensor_idx_2_name_",
              frame |-> "frame_state_idx_2_name_",
              effort |-> "effort_sensor_idx_2_name_"]

\* default-constructed records
JointSensor0 == [position |-> 0, velocity |-> 0, effort |-> 0]
ImuSensor0 == [accel |-> Zero3, gyro |-> Zero3, magnet |-> Zero3]
Frame0 == [position |-> Zero3, orientation |-> <<0, 0, 0, 0>>,
           linear |-> Zero3, angular |-> Zero3]
EffortSensor0 == [force |-> Zero3, torque |-> Zero3]
JointCommand0 == [position |-> 0, velocity |-> 0, acceleration |-> 0,
                  effort |-> 0]
DefaultRecord == [joint |-> JointSensor0, imu |-> ImuSensor0,
                  frame |-> Frame0, effort |-> EffortSensor0]

\* the object as the constructor leaves it; sensor_time is not initialised
ControllerInterface ==
  [sensor_time |-> nullopt,
   joint_sensor_idx_ |-> <<>>, joint_sensor_map_ |-> <<>>,
   joint_sensor_idx_2_name_ |-> <<>>,
   imu_sensor_idx_ |-> <<>>, sensor_imu_map_ |-> <<>>,
   imu_sensor_idx_2_name_ |-> <<>>,
   frame_state_idx_ |-> <<>>, state_frame_map_ |-> <<>>,
   frame_state_idx_2_name_ |-> <<>>,
   effort_sensor_idx_ |-> <<>>, effort_sensor_map_ |-> <<>>,
   effort_sensor_idx_2_name_ |-> <<>>,
   joint_do_ctrls_ |-> <<>>, joint_cmd_ |-> <<>>,
   joint_control_inst_name_2_idx_ |-> <<>>]

\* unordered_map::emplace keeps the element that is already there
emplace(f, k, v) == IF k \in DOMAIN f THEN f ELSE (k :> v) @@ f
\* unordered_map::operator[] followed by an assignment
Put(f, k, v) == [x \in DOMAIN f \cup {k} |-> IF x = k THEN v ELSE f[x]]

\* the bucket that the if-chain of init registers a sensor type in
InitBucket(sensor_type) ==
  CASE sensor_type \in {"JOINTPOS", "JOINTVEL", "JOINTACTFRC"} -> "joint"
    [] sensor_type \in {"ACCELEROMETER", "GYRO", "MAGNETOMETER"} -> "imu"
    [] sensor_type \in {"FRAMEPOS", "FRAMEQUAT", "FRAMELINVEL",
                        "FRAMEANGVEL"} -> "frame"
    [] sensor_type \in {"FORCE", "TORQUE"} -> "effort"
    [] OTHER -> "none"

\* The sensor loop of init.  Building a std::string from a null name is
\* undefined and faults (the standard library throws or reads address 0).
RECURSIVE InitSensorsFrom(_, _)
InitSensorsFrom(c, i) ==
  IF i >= m.nsensor \/ c.fault THEN c
  ELSE LET sensor_type == m.sensor_type[i]
           obj_id == m.sensor_objid[i]
           obj_type == m.sensor_objtype[i]
           map_id == MapId(obj_type, obj_id)
           obj_name == mj_id2name(obj_type, obj_id)
           b == InitBucket(sensor_type)
       IN IF b = "none" THEN InitSensorsFrom(c, i + 1)
          ELSE LET c1 == [c EXCEPT !.ci[MapOf[b]] =
                                      emplace(@, map_id, DefaultRecord[b])]
               IN IF obj_name = NoAttr THEN [c1 EXCEPT !.fault = TRUE]
                  ELSE InitSensorsFrom(
                         [c1 EXCEPT !.ci[NameMapOf[b]] =
                                       emplace(@, map_id, obj_name)], i + 1)

\* The keys of a map as the loop `for (auto it : map)` pushes them.  The
\* iteration order of an unordered_map is rendered as ascending; a key was
\* computed in int, so narrowing it to the int element gives it back.
RECURSIVE KeysOf(_)
KeysOf(S) ==
  IF S = {} THEN <<>>
  ELSE LET x == CHOOSE x \in S : \A y \in S : x <= y
       IN <<x>> \o KeysOf(S \ {x})

InitIndexLists(c) ==
  [c EXCEPT
     !.joint_sensor_idx_ = @ \o KeysOf(DOMAIN c.joint_sensor_idx_2_name_),
     !.imu_sensor_idx_ = @ \o KeysOf(DOMAIN c.imu_sensor_idx_2_name_),
     !.frame_state_idx_ = @ \o KeysOf(DOMAIN c.frame_state_idx_2_name_),
     !.effort_sensor_idx_ = @ \o KeysOf(DOMAIN c.effort_sensor_idx_2_name_)]

\* vector::resize keeps the elements that are already there
resize(v, n, dflt) ==
  [i \in 0..(n - 1) |-> IF i \in DOMAIN v THEN v[i] ELSE dflt]

\* The actuator loop of init
RECURSIVE InitActuatorsFrom(_, _)
InitActuatorsFrom(c, i) ==
  IF i >= m.nu \/ c.fault THEN c
  ELSE LET actuator_name == m.actuator_name[i] IN
       IF actuator_name = NoAttr THEN [c EXCEPT !.fault = TRUE]
       ELSE InitActuatorsFrom(
              [c EXCEPT
                 !.ci.joint_control_inst_name_2_idx_ =
                    Put(@, actuator_name, i),
                 !.ci.joint_do_ctrls_[i] = FALSE,
                 !.ci.joint_cmd_[i] = JointCommand0], i + 1)

\* ControllerInterface::init
ControllerInitBody ==
  LET cleared == [ci EXCEPT
          !.joint_sensor_idx_ = <<>>, !.joint_sensor_map_ = <<>>,
          !.joint_sensor_idx_2_name_ = <<>>,
          !.imu_sensor_idx_ = <<>>, !.sensor_imu_map_ = <<>>,
          !.imu_sensor_idx_2_name_ = <<>>,
          !.frame_state_idx_ = <<>>, !.state_frame_map_ = <<>>,
          !.frame_state_idx_2_name_ = <<>>,
          !.effort_sensor_idx_ = <<>>, !.effort_sensor_map_ = <<>>,
          !.effort_sensor_idx_2_name_ = <<>>]
      s == InitSensorsFrom([ci |-> cleared, fault |-> FALSE], 0)
  IN IF s.fault THEN s
     ELSE LET c == InitIndexLists(s.ci)
              r == [c EXCEPT
                      !.joint_do_ctrls_ = resize(@, m.nu, FALSE),
                      !.joint_cmd_ = resize(@, m.nu, JointCommand0)]
          IN InitActuatorsFrom([ci |-> r, fault |-> FALSE], 0)

\* The assignments the switch of updateSensor runs for a sensor type, in
\* order: bucket, field and number of buffer elements.  The MAGNETOMETER
\* case has no break and runs on into the FRAMEPOS case.
SwitchWrites(sensor_type) ==
  CASE sensor_type = "JOINTPOS" -> << <<"joint", "position", 1>> >>
    [] sensor_type = "JOINTVEL" -> << <<"joint", "velocity", 1>> >>
    [] sensor_type = "JOINTACTFRC" -> << <<"joint", "effort", 1>> >>
    [] sensor_type = "ACCELEROMETER" -> << <<"imu", "accel", 3>> >>
    [] sensor_type = "GYRO" -> << <<"imu", "gyro", 3>> >>
    [] sensor_type = "MAGNETOMETER" ->
         << <<"imu", "magnet", 3>>, <<"frame", "position", 3>> >>
    [] sensor_type = "FRAMEPOS" -> << <<"frame", "position", 3>> >>
    [] sensor_type = "FRAMEQUAT" -> << <<"frame", "orientation", 4>> >>
    [] sensor_type = "FRAMELINVEL" -> << <<"frame", "linear", 3>> >>
    [] sensor_type = "FRAMEANGVEL" -> << <<"frame", "angular", 3>> >>
    [] sensor_type = "FORCE" -> << <<"effort", "force", 3>> >>
    [] sensor_type = "TORQUE" -> << <<"effort", "torque", 3>> >>
    [] OTHER -> <<>>

\* map[map_id].field = d->sensordata[data_index ..]; operator[] inserts a
\* default record when the key is absent
WriteField(c, w, map_id, data_index) ==
  LET mp == c[MapOf[w[1]]]
      rec == IF map_id \in DOMAIN mp THEN mp[map_id] ELSE DefaultRecord[w[1]]
      val == IF w[3] = 1 THEN d.sensordata[data_index]
             ELSE [k \in 1..w[3] |-> d.sensordata[data_index + k - 1]]
  IN [c EXCEPT ![MapOf[w[1]]] = Put(mp, map_id, [rec EXCEPT ![w[2]] = val])]

RECURSIVE WriteFields(_, _, _, _)
WriteFields(c, ws, map_id, data_index) ==
  IF ws = <<>> THEN c
  ELSE WriteFields(WriteField(c, Head(ws), map_id, data_index), Tail(ws),
                   map_id, data_index)

\* the sensor loop advancing data_index for recognised sensor types only
RECURSIVE UpdateSensorSkipUnknown(_, _, _)
UpdateSensorSkipUnknown(c, i, data_index) ==
  IF i >= m.nsensor THEN c
  ELSE LET ws == SwitchWrites(m.sensor_type[i])
           map_id == MapId(m.sensor_objtype[i], m.sensor_objid[i])
       IN UpdateSensorSkipUnknown(
            WriteFields(c, ws, map_id, data_index), i + 1,
            IF ws = <<>> THEN data_index ELSE data_index + m.sensor_dim[i])

\* The sensor loop of updateSensor from sensor i on
RECURSIVE UpdateSensorFrom(_, _, _)
UpdateSensorFrom(c, i, data_index) ==
  IF i >= m.nsensor THEN c
  ELSE LET sensor_type == m.sensor_type[i]
           sensor_dim == m.sensor_dim[i]
           obj_id == m.sensor_objid[i]
           obj_type == m.sensor_objtype[i]
           map_id == MapId(obj_type, obj_id)
       IN UpdateSensorFrom(
            WriteFields(c, SwitchWrites(sensor_type), map_id, data_index),
            i + 1, data_index + sensor_dim)

\* ControllerInterface::updateSensor
UpdateSensorBody ==
  UpdateSensorFrom([ci EXCEPT !.sensor_time = Some(d.time)], 0, 0)

ControllerInit ==
  /\ scene = "controller" /\ ~crashed
  /\ LET r == ControllerInitBody IN
       /\ ci' = r.ci
       /\ crashed' = r.fault
       /\ ev' = Event("init", IF r.fault THEN 0 ELSE 1, FALSE, 0)
  /\ hist' = [hist EXCEPT !.ninit = 1, !.calls = <<>>]
  /\ UNCHANGED <<scene, attr, m, build, d, obj, sink, fs>>

\* the model the host loads in place of the first one: one gyro on a named
\* site and one named actuator
ReloadModel ==
  [nsensor |-> 1,
   sensor_type |-> [i \in {0} |-> "GYRO"],
   sensor_dim |-> [i \in {0} |-> 3],
   sensor_objid |-> [i \in {0} |-> 0],
   sensor_objtype |-> [i \in {0} |-> 6],
   name |-> [p \in {1, 2, 3, 6} \X {0, 1} |-> IF p[1] = 6 THEN "imu_site" ELSE "link"],
   nu |-> 1,
   actuator_name |-> [i \in {0} |-> "wheel"]]

\* The host replaces the model (and its mjData) by another one; it has not
\* called init on the new model yet.
ControllerLoadModel ==
  /\ scene = "controller" /\ ~crashed
  /\ hist.ninit = 1
  /\ hist.nload < MaxLoads
  /\ m' = ReloadModel
  /\ d' = [d EXCEPT !.sensordata = [k \in 0..2 |-> 21 + k]]
  /\ ev' = Event("load", 0, FALSE, 0)
  /\ hist' = [hist EXCEPT !.nload = @ + 1, !.ninit = 0]
  /\ UNCHANGED <<scene, attr, build, obj, ci, sink, fs, crashed>>

ControllerUpdateSensor ==
  /\ scene = "controller" /\ ~crashed
  /\ hist.ncompute < MaxCalls
  /\ ci' = UpdateSensorBody
  /\ ev' = Event("updateSensor", 0, FALSE, 0)
  /\ hist' = [hist EXCEPT !.ncompute = @ + 1,
                          !.calls = Append(@, [t |-> d.time, ci |-> ci])]
  /\ UNCHANGED <<scene, attr, m, build, d, obj, sink, fs, crashed>>

-----------------------------------------------------------------------------
(* Initial states *)

Timesteps == {5, 6}     \* the host's timestep, in ticks

Vels0 == <<0, 0, 0, 0, 0, 0>>
D0 == [time |-> 0, plugin_data |-> 0, xpos |-> <<>>, vel6 |-> <<>>,
       xfrc_applied |-> <<>>, ctrl |-> <<>>, actuator_length |-> <<>>,
       actuator_velocity |-> <<>>, actuator_force |-> <<>>,
       sensordata |-> <<>>]
Build0 == [spill |-> "none", shift |-> "mask"]
Fs0 == [open |-> {}, closed |-> <<>>]
Hist0 == [ninit |-> 0, ncompute |-> 0, nreset |-> 0, nload |-> 0,
          calls |-> <<>>]
Ci0 == [kind |-> "none"]

InspectorModels ==
  { [njnt |-> 3, jnt_type |-> <<"HINGE", "BALL", "SLIDE">>, nsensor |-> 2],
    [njnt |-> 2, jnt_type |-> <<"FREE", "HINGE">>, nsensor |-> 0] }

InitInspector ==
  /\ scene = "inspector"
  /\ \E mode \in {NoAttr, "", "print", "file"}, file \in {NoAttr, "out.log"},
        rate \in {NoAttr, "0", "-5", "10", "20"} :
       /\ file = NoAttr \/ mode \in {"print", "file"}
       /\ attr = [k \in {"mode", "file", "rate"} |->
                 IF k = "mode" THEN mode ELSE IF k = "file" THEN file ELSE rate]
  /\ m \in InspectorModels
  /\ d = D0

\* Where the three numbers written past vel1/vel2 can land
Spills == {"none", "vel1", "vec", "force_magnitude", "crash"}

Points == { <<0, 0, 0>>, <<6, 8, 0>>, <<12, 0, 0>> }
Vels ==
  { <<0, 0, 0, 0, 0, 0>>,     \* at rest
    <<2, 0, 0, 0, 0, 0>>,     \* spinning about x
    <<0, 0, 0, 2, 0, 0>> }    \* moving along x

BodyNames == [i \in 0..2 |-> IF i = 0 THEN "world" ELSE IF i = 1 THEN "a" ELSE "b"]
BodyRow(f, t) == <<f, 0, 0, 0, 0, t>>

InitSpring ==
  /\ scene = "spring"
  /\ \E stiffness \in {NoAttr, "2.0"}, damping \in {NoAttr, "0"},
        restlength \in {NoAttr, "1.0", "0"},
        body1 \in {NoAttr, "a", "b", "zz"}, body2 \in {"", "a", "b", "zz"} :
       attr = [k \in {"stiffness", "damping", "restlength", "body1", "body2"} |->
                 CASE k = "stiffness" -> stiffness
                   [] k = "damping" -> damping
                   [] k = "restlength" -> restlength
                   [] k = "body1" -> body1
                   [] OTHER -> body2]
  /\ m = [nbody |-> 3, body_name |-> BodyNames,
          body_pos |-> [i \in 0..2 |-> IF i = 2 THEN <<6, 8, 0>> ELSE Zero3]]
  /\ \E pb \in Points, va \in Vels, vb \in Vels, f0 \in {0, 7} :
       d = [D0 EXCEPT
              !.xpos = [i \in 0..2 |-> IF i = 2 THEN pb ELSE Zero3],
              !.vel6 = [i \in 0..2 |-> IF i = 1 THEN va
                                       ELSE IF i = 2 THEN vb ELSE Vels0],
              !.xfrc_applied = [i \in 0..2 |-> BodyRow(f0, f0)]]
  /\ \E sp \in Spills : build = [Build0 EXCEPT !.spill = sp]

\* the actuator name sets of the PdFf scenes, each in every order
NameSets ==
  { {"a_qref", "a_qdref", "a_tau", "a_other"},
    {"a_qref", "B:QREF", "a_qdref", "a_tau"},
    {"a_qref", "a_qdref", "a_other", NoAttr},
    {"a_qref", "a_tau", "a_other", "B:QREF"},
    {"a_qdref", "a_tau", "a_other", NoAttr} }

ActuatorNames ==
  UNION { { f \in [0..3 -> S] : \A i, j \in 0..3 : f[i] = f[j] => i = j } :
          S \in NameSets }

\* all actuators belong to the instance, or all but one
Ownerships ==
  { [i \in 0..3 |-> IF i = k THEN 1 ELSE instance] : k \in {-1, 0, 3} }

\* the ctrl slot the control application wrote for an actuator
CtrlOf(name, variant) ==
  CASE name = "a_qref" -> IF variant = 1 THEN 10 ELSE 4
    [] name = "B:QREF" -> IF variant = 1 THEN 20 ELSE 2
    [] name = "a_qdref" -> IF variant = 1 THEN 0 ELSE 6
    [] name = "a_tau" -> IF variant = 1 THEN 3 ELSE -3
    [] OTHER -> 7

InitPdFf ==
  /\ scene = "pdff"
  /\ \E gains \in {<<NoAttr, NoAttr>>, <<"2.0", "0.5">>},
        target \in {NoAttr, "a_qref", "a_other", "a_tau", "zz"} :
       attr = [k \in {"kp", "kd", "target"} |->
                 CASE k = "kp" -> gains[1] [] k = "kd" -> gains[2]
                   [] OTHER -> target]
  /\ \E names \in ActuatorNames, owners \in Ownerships :
       /\ m = [nu |-> 4, actuator_name |-> names, actuator_plugin |-> owners]
       /\ \E variant \in {1, 2} :
            d = [D0 EXCEPT
                   !.ctrl = [i \in 0..3 |-> CtrlOf(names[i], variant)],
                   !.actuator_length =
                      [i \in 0..3 |-> IF variant = 1 THEN 8 ELSE 9 + i],
                   !.actuator_velocity =
                      [i \in 0..3 |-> IF variant = 1 THEN 1 ELSE -2],
                   !.actuator_force =
                      [i \in 0..3 |-> IF variant = 1 THEN 0 ELSE 5]]
  /\ build = Build0

\* mjtObj tags of the objects that sensors attach to
mjOBJ == [BODY |-> 1, XBODY |-> 2, JOINT |-> 3, SITE |-> 6]

ObjectNames ==
  [p \in {1, 2, 3, 6} \X {0, 1} |->
     CASE p[1] = 1 -> <<"base", "arm">>[p[2] + 1]
       [] p[1] = 2 -> <<"base", "arm">>[p[2] + 1]
       [] p[1] = 3 -> <<"hinge0", "hinge1">>[p[2] + 1]
       [] OTHER -> <<"site0", "site1">>[p[2] + 1]]

Sensor(type, objtype, objid, dim) ==
  [type |-> type, objtype |-> objtype, objid |-> objid, dim |-> dim]

\* the sensors a scene can declare
SensorPool ==
  { Sensor(t, mjOBJ.JOINT, i, 1) :
      t \in {"JOINTPOS", "JOINTVEL", "JOINTACTFRC"}, i \in {0, 1} }
  \cup { Sensor(t, mjOBJ.SITE, 0, 3) :
           t \in {"ACCELEROMETER", "GYRO", "MAGNETOMETER", "FORCE", "TORQUE"} }
  \cup { Sensor(t, o[1], o[2], 3) :
           t \in {"FRAMEPOS", "FRAMELINVEL", "FRAMEANGVEL"},
           o \in {<<mjOBJ.BODY, 1>>, <<mjOBJ.XBODY, 0>>} }
  \cup { Sensor("FRAMEQUAT", o[1], o[2], 4) :
           o \in {<<mjOBJ.BODY, 1>>, <<mjOBJ.XBODY, 0>>} }
  \cup { Sensor("TOUCH", mjOBJ.SITE, 0, 1) }

SensorLists == UNION { [1..n -> SensorPool] : n \in 1..NSensor }

RECURSIVE SumDims(_)
SumDims(ss) == IF ss = <<>> THEN 0 ELSE Head(ss).dim + SumDims(Tail(ss))

InitController ==
  /\ scene = "controller"
  /\ attr = <<>>
  /\ \E ss \in SensorLists, named \in BOOLEAN :
       /\ m = [nsensor |-> Len(ss),
               sensor_type |-> [i \in 0..(Len(ss) - 1) |-> ss[i + 1].type],
               sensor_dim |-> [i \in 0..(Len(ss) - 1) |-> ss[i + 1].dim],
               sensor_objid |-> [i \in 0..(Len(ss) - 1) |-> ss[i + 1].objid],
               sensor_objtype |->
                  [i \in 0..(Len(ss) - 1) |-> ss[i + 1].objtype],
               name |-> [p \in DOMAIN ObjectNames |->
                           IF named \/ p[2] = 0 THEN ObjectNames[p]
                           ELSE NoAttr],
               nu |-> 2,
               actuator_name |->
                  [i \in 0..1 |-> IF i = 0 THEN "motor0"
                                  ELSE IF named THEN "motor1" ELSE NoAttr]]
       /\ d = [D0 EXCEPT !.time = 5,
                 !.sensordata = [k \in 0..(SumDims(ss) - 1) |-> 11 + k]]
  /\ \E sh \in {"mask", "zero"} : build = [Build0 EXCEPT !.shift = sh]

Init ==
  /\ \/ InitInspector /\ build = Build0
     \/ InitSpring
     \/ InitPdFf
     \/ InitController
  /\ obj = NoObj
  /\ ci = IF scene = "controller" THEN ControllerInterface ELSE Ci0
  /\ sink = <<>>
  /\ fs = Fs0
  /\ crashed = FALSE
  /\ ev = Event("none", 0, FALSE, 0)
  /\ hist = Hist0

Next ==
  \/ PdFfInit
  \/ PdFfDestroy
  \/ PdFfCompute
  \/ SpringInit
  \/ SpringDestroy
  \/ SpringCompute
  \/ \E ok \in BOOLEAN : InspectorInit(ok)
  \/ InspectorDestroy
  \/ InspectorCompute
  \/ \E dt \in Timesteps : HostStep(dt)
  \/ HostReset
  \/ ControllerInit
  \/ ControllerLoadModel
  \/ ControllerUpdateSensor

Spec == Init /\ [][Next]_vars

-----------------------------------------------------------------------------
(* Claims about the Inspector *)

\* time of the latest emitting call among calls 1..i-1 of the log
RECURSIVE LastEmitBefore(_, _)
LastEmitBefore(log, i) ==
  IF i <= 1 THEN NoEmitYet
  ELSE IF log[i-1].emitted THEN log[i-1].t
  ELSE LastEmitBefore(log, i - 1)

NonDecreasing(log) == \A i \in 1..(Len(log) - 1) : log[i].t <= log[i+1].t

ConfiguredRate == InspectorConfig.rate_hz

\* the call at time t, with the last emission at time last, is due:
\* t >= last + 1/rate
Due(t, last) == t * ConfiguredRate >= last * ConfiguredRate + TimeScale

\* C1: over calls of one instance at non-decreasing times, a call emits iff
\* it is the first call, or the rate is <= 0, or the time has reached the
\* last emission plus 1/rate; with rate 10 and calls at 0.00, 0.05, 0.11
\* exactly the first and the third emit.
C1_EmissionRule ==
  (scene = "inspector" /\ NonDecreasing(hist.calls)) =>
    /\ \A i \in 1..Len(hist.calls) :
         hist.calls[i].emitted <=>
           \/ i = 1
           \/ ConfiguredRate <= 0
           \/ Due(hist.calls[i].t, LastEmitBefore(hist.calls, i))
    /\ (ConfiguredRate = 10 /\ Len(hist.calls) = 3
         /\ hist.calls[1].t = 0 /\ hist.calls[2].t = 5 /\ hist.calls[3].t = 11)
       => (hist.calls[1].emitted /\ ~hist.calls[2].emitted /\ hist.calls[3].emitted)

C1_Witness ==
  /\ scene = "inspector" /\ ConfiguredRate = 10 /\ Len(hist.calls) = 3
  /\ hist.calls[1].t = 0 /\ hist.calls[2].t = 5 /\ hist.calls[3].t = 11
  /\ ~hist.calls[2].emitted /\ hist.calls[3].emitted

\* a Compute call on the live instance is about to be made inside the rate
\* limit: rate > 0, an earlier call emitted, and less than 1/rate has elapsed
CallInsideLimit ==
  /\ scene = "inspector" /\ d.plugin_data # 0
  /\ ConfiguredRate > 0
  /\ LastEmitBefore(hist.calls, Len(hist.calls) + 1) >= 0
  /\ ~Due(d.time, LastEmitBefore(hist.calls, Len(hist.calls) + 1))

IsComputeStep == ev'.cb = "compute" /\ hist'.ncompute = hist.ncompute + 1

\* C2: a rate-limited Compute call writes no line and leaves last_emit_time_,
\* header_emitted_, the configuration and the file handle (the whole object),
\* and the files, as they were.
C2_SkipChangesNothing ==
  [][(CallInsideLimit /\ IsComputeStep) =>
       (sink' = sink /\ obj' = obj /\ fs' = fs /\ d' = d)]_vars

C2_Witness ==
  /\ scene = "inspector" /\ ev.cb = "compute" /\ d.plugin_data # 0
  /\ Len(hist.calls) >= 2
  /\ ~hist.calls[Len(hist.calls)].emitted
  /\ obj.header_emitted_ /\ obj.last_emit_time_ < d.time

-----------------------------------------------------------------------------
(* Claims about the Spring *)

\* a Spring::Compute call on the live instance
IsSpringComputeStep ==
  /\ scene = "spring" /\ d.plugin_data # 0
  /\ ev'.cb = "compute" /\ hist'.ncompute = hist.ncompute + 1

\* what the step added to the force components of body b
ForceIncrement(b) ==
  [k \in 1..3 |-> d'.xfrc_applied[b][k] - d.xfrc_applied[b][k]]

SumIncrements ==
  [k \in 1..3 |-> ForceIncrement(0)[k] + ForceIncrement(1)[k] + ForceIncrement(2)[k]]

\* the increments of body1 and body2 are negations of each other and the
\* summed increment is zero
EqualAndOpposite ==
  /\ obj.config_.body1_id # obj.config_.body2_id =>
       ForceIncrement(obj.config_.body1_id)
         = scl3(ForceIncrement(obj.config_.body2_id), -1)
  /\ SumIncrements = Zero3

\* rest length 1.0 configured, separation exactly 1.0, and the two bodies'
\* world-space linear velocities equal
AtRestLengthNoRelativeVelocity ==
  /\ obj.config_.rest_length = LenScale
  /\ mju_norm3(sub3(d.xpos[obj.config_.body2_id], d.xpos[obj.config_.body1_id]))
       = LenScale
  /\ Tail3(d.vel6[obj.config_.body2_id]) = Tail3(d.vel6[obj.config_.body1_id])

\* C3: in every Spring::Compute call the force added to body1 is the negation
\* of the force added to body2 (the summed increment is zero), and with rest
\* length 1.0, separation 1.0 and zero relative velocity both increments are
\* zero.
C3_EqualOppositeAndZeroAtRest ==
  [][IsSpringComputeStep =>
       /\ EqualAndOpposite
       /\ AtRestLengthNoRelativeVelocity =>
            /\ ForceIncrement(obj.config_.body1_id) = Zero3
            /\ ForceIncrement(obj.config_.body2_id) = Zero3]_vars

\* the first half of C3 alone
C3_EqualOppositeOnly == [][IsSpringComputeStep => EqualAndOpposite]_vars

\* the second half of C3 where nothing lands outside the velocity buffers
\* and both bodies have the same six-component velocity
C3_ZeroAtRestSameVelocity ==
  [][(IsSpringComputeStep /\ AtRestLengthNoRelativeVelocity
        /\ build.spill = "none"
        /\ d.vel6[obj.config_.body2_id] = d.vel6[obj.config_.body1_id]) =>
       /\ ForceIncrement(obj.config_.body1_id) = Zero3
       /\ ForceIncrement(obj.config_.body2_id) = Zero3]_vars

-----------------------------------------------------------------------------
(* Claims about PdFf *)

IsPdFfComputeStep ==
  /\ scene = "pdff" /\ d.plugin_data # 0
  /\ ev'.cb = "compute" /\ hist'.ncompute = hist.ncompute + 1

\* tau = kp*(qRef - qMeasured) + kd*(qdRef - qdMeasured) + tauFf
ClaimedTau ==
  obj.config_.kp * (d.ctrl[obj.id_qref_] - d.actuator_length[obj.id_target_])
  + obj.config_.kd * (d.ctrl[obj.id_qdref_] - d.actuator_velocity[obj.id_target_])
  + d.ctrl[obj.id_tau_] * GainScale

\* C4: for every binding PdFf::Create accepts, an explicit target naming the
\* qref or qdref actuator included, PdFf::Compute leaves the target's force
\* accumulator at its old value plus tau.
C4_TargetGetsTau ==
  [][IsPdFfComputeStep =>
       d'.actuator_force[obj.id_target_]
         = d.actuator_force[obj.id_target_] + ClaimedTau]_vars

\* C4 for the bindings whose target is neither the qref nor the qdref actuator
C4_TargetGetsTauWhenDistinct ==
  [][(IsPdFfComputeStep /\ obj.id_target_ \notin {obj.id_qref_, obj.id_qdref_}) =>
       d'.actuator_force[obj.id_target_]
         = d.actuator_force[obj.id_target_] + ClaimedTau]_vars

\* the example of C4: kp = 2.0, kd = 0.5, qRef = 1.0, qdRef = 0.0,
\* tauFf = 0.3, measured 0.8 and 0.1 give tau = 0.65
C4_Example ==
  (scene = "pdff" /\ d.plugin_data # 0
     /\ obj.config_.kp = 2 * GainScale /\ 2 * obj.config_.kd = GainScale
     /\ d.ctrl[obj.id_qref_] = LenScale /\ d.ctrl[obj.id_qdref_] = 0
     /\ 10 * d.ctrl[obj.id_tau_] = 3 * LenScale
     /\ 10 * d.actuator_length[obj.id_target_] = 8 * LenScale
     /\ 10 * d.actuator_velocity[obj.id_target_] = LenScale)
  => 100 * PdFfTau(obj) = 65 * GainScale * LenScale

ActuatorIds == 0..(m.nu - 1)
IndexOfName(name) == CHOOSE i \in ActuatorIds : m.actuator_name[i] = name

\* the instance owns a_qref, a_qdref, a_tau and a_other, in some order, and
\* no target is configured
FourChannelsNoTarget ==
  /\ scene = "pdff"
  /\ {m.actuator_name[i] : i \in ActuatorIds}
       = {"a_qref", "a_qdref", "a_tau", "a_other"}
  /\ \A i \in ActuatorIds : m.actuator_plugin[i] = instance
  /\ attr["target"] = NoAttr

\* C5: with actuators a_qref, a_qdref, a_tau, a_other under one instance and
\* no target attribute, PdFf::Create succeeds and binds the target to a_tau,
\* in every declaration order.
C5_TargetIsTauInEveryOrder ==
  FourChannelsNoTarget =>
    /\ ev.cb = "init" => (ev.ret = 0 /\ d.plugin_data # 0)
    /\ d.plugin_data # 0 => obj.id_target_ = IndexOfName("a_tau")

C5_Witness ==
  /\ FourChannelsNoTarget /\ ev.cb = "init" /\ d.plugin_data # 0
  /\ m.actuator_name[0] = "a_other" /\ m.actuator_name[3] = "a_tau"
  /\ obj.id_target_ = 3

\* some actuator of the instance matches the convention _conv or :conv
HasChannel(us, colon) ==
  \E i \in ActuatorIds :
    /\ m.actuator_plugin[i] = instance
    /\ EndsWithLower(ActName(i), us) \/ EndsWithLower(ActName(i), colon)

\* a target can be resolved: the configured name is an actuator of the
\* instance, or none is configured and the instance has an actuator
TargetResolvable ==
  IF attr["target"] = NoAttr \/ attr["target"] = ""
    THEN \E i \in ActuatorIds : m.actuator_plugin[i] = instance
    ELSE \E i \in ActuatorIds :
           m.actuator_plugin[i] = instance /\ ActName(i) = attr["target"]

BindingIncomplete ==
  \/ ~HasChannel("_qref", ":qref")
  \/ ~HasChannel("_qdref", ":qdref")
  \/ ~HasChannel("_tau", ":tau")
  \/ ~TargetResolvable

\* C9: when no actuator of the instance matches qref, or none qdref, or none
\* tau, or no target resolves, Create returns null, init returns -1 and the
\* slot is not written; a live instance has all four handles bound to
\* actuators of the instance.
C9_BindingFailsClosed ==
  scene = "pdff" =>
    /\ BindingIncomplete =>
         /\ d.plugin_data = 0 /\ obj = NoObj
         /\ ev.cb = "init" => ev.ret = -1
    /\ obj # NoObj =>
         \A h \in {obj.id_qref_, obj.id_qdref_, obj.id_tau_, obj.id_target_} :
           h \in ActuatorIds /\ m.actuator_plugin[h] = instance

C9_Witness ==
  /\ scene = "pdff" /\ ev.cb = "init" /\ ev.ret = -1 /\ d.plugin_data = 0
  /\ ~HasChannel("_qdref", ":qdref")
  /\ HasChannel("_qref", ":qref") /\ HasChannel("_tau", ":tau")
  /\ TargetResolvable

-----------------------------------------------------------------------------
(* Claims about the lifecycle callbacks *)

\* C7: for the spring, pdff and inspector plugins, destroy on a slot that
\* holds 0 reads nothing through the handle, closes no file, faults nothing
\* and leaves the slot at 0 and everything else as it was.
C7_DestroyOnNullIsNoOp ==
  [][(scene \in {"spring", "pdff", "inspector"} /\ d.plugin_data = 0
        /\ ev'.cb = "destroy") =>
       /\ d' = d /\ d'.plugin_data = 0
       /\ ~ev'.deref /\ ev'.nclosed = 0
       /\ fs' = fs /\ obj' = obj /\ sink' = sink
       /\ ~crashed']_vars

\* destroy ran on the inspector after a create that failed to open its file
C7_Witness ==
  /\ scene = "inspector" /\ ModeIsFile(InspectorConfig)
  /\ hist.ninit = 1 /\ fs.closed = <<>>
  /\ ev.cb = "destroy" /\ ev.slot = 0 /\ d.plugin_data = 0 /\ ~crashed

\* C8: a file is open while the inspector instance lives iff mode = "file";
\* destroy closes it exactly once, frees the instance and zeroes the slot; a
\* later destroy closes nothing; stdout is never closed.
C8_InspectorLifecycle ==
  scene = "inspector" =>
    /\ d.plugin_data # 0 =>
         /\ fs.open # {} <=> ModeIsFile(InspectorConfig)
         /\ ModeIsFile(InspectorConfig) => fs.open = {obj.file_}
    /\ d.plugin_data = 0 => fs.open = {}
    /\ Len(fs.closed) <= 1
    /\ (ev.cb = "destroy" /\ ev.slot # 0) =>
         /\ d.plugin_data = 0 /\ obj = NoObj
         /\ ev.nclosed = (IF ModeIsFile(InspectorConfig) THEN 1 ELSE 0)
         /\ Len(fs.closed) = ev.nclosed
    /\ (ev.cb = "destroy" /\ ev.slot = 0) => ev.nclosed = 0
    /\ \A i \in 1..Len(fs.closed) : fs.closed[i] # STDOUT

\* init, a compute, then destroy of a file-mode inspector
C8_Witness ==
  /\ scene = "inspector" /\ ModeIsFile(InspectorConfig)
  /\ ev.cb = "destroy" /\ ev.slot # 0 /\ hist.ncompute >= 1 /\ ~crashed
  /\ d.plugin_data = 0 /\ fs.open = {} /\ Len(fs.closed) = 1
  /\ Len(sink) > 0 /\ sink[1].to = fs.closed[1]

-----------------------------------------------------------------------------
(* Claims about the ControllerInterface *)

IsUpdateSensorStep ==
  /\ scene = "controller" /\ ev'.cb = "updateSensor"
  /\ hist'.ncompute = hist.ncompute + 1

SensorIds == 0..(m.nsensor - 1)
RegisteredBuckets == { InitBucket(m.sensor_type[i]) : i \in SensorIds }
BucketChanged(b) == ci'[MapOf[b]] # ci[MapOf[b]]

\* C6: after init, an updateSensor call changes only the buckets in which
\* init registered the scene's sensors; with one sensor of a recognised type
\* the first call changes exactly that sensor's bucket.
C6_NoCrossBucketWrites ==
  [][(IsUpdateSensorStep /\ hist.ninit = 1) =>
       /\ \A b \in Buckets : BucketChanged(b) => b \in RegisteredBuckets
       /\ (m.nsensor = 1 /\ hist.calls = <<>>) =>
            \A b \in Buckets :
              BucketChanged(b) <=> b = InitBucket(m.sensor_type[0])]_vars

\* the same statement for scenes without a magnetometer
C6_WithoutMagnetometer ==
  [][(IsUpdateSensorStep /\ hist.ninit = 1
        /\ \A i \in SensorIds : m.sensor_type[i] # "MAGNETOMETER") =>
       /\ \A b \in Buckets : BucketChanged(b) => b \in RegisteredBuckets
       /\ (m.nsensor = 1 /\ hist.calls = <<>>) =>
            \A b \in Buckets :
              BucketChanged(b) <=> b = InitBucket(m.sensor_type[0])]_vars

\* C10: once init has run, two sensors of the scene whose (object type,
\* object id) pairs differ have different keys.
C10_KeyInjective ==
  (scene = "controller" /\ hist.ninit = 1) =>
    \A i, j \in SensorIds :
      <<m.sensor_objtype[i], m.sensor_objid[i]>> #
        <<m.sensor_objtype[j], m.sensor_objid[j]>> =>
      MapId(m.sensor_objtype[i], m.sensor_objid[i]) #
        MapId(m.sensor_objtype[j], m.sensor_objid[j])

\* C10 on the builds that take the shift count modulo 32
C10_KeyInjectiveMaskedShift ==
  build.shift = "mask" => C10_KeyInjective

-----------------------------------------------------------------------------
(* Claims about the Spring force *)

Body1 == obj.config_.body1_id
Body2 == obj.config_.body2_id

\* C11: when body1 and body2 are two bodies at the same world position, a
\* Spring::Compute call adds zero force to both accumulators.
C11_DegenerateGeometryZeroForce ==
  [][(IsSpringComputeStep /\ Body1 # Body2 /\ d.xpos[Body1] = d.xpos[Body2]) =>
       /\ ForceIncrement(Body1) = Zero3
       /\ ForceIncrement(Body2) = Zero3]_vars

\* C11 where the rest length is 0 and the first three numbers of both
\* velocities agree: the magnitude itself is zero
C11_ZeroForceWhenMagnitudeZero ==
  [][(IsSpringComputeStep /\ Body1 # Body2 /\ d.xpos[Body1] = d.xpos[Body2]
        /\ build.spill = "none" /\ obj.config_.rest_length = 0
        /\ Head3(d.vel6[Body1]) = Head3(d.vel6[Body2])) =>
       /\ ForceIncrement(Body1) = Zero3
       /\ ForceIncrement(Body2) = Zero3]_vars

\* the quantities the force law is stated in
UnitDirection == mju_normalize3(sub3(d.xpos[Body2], d.xpos[Body1])).vec
CurrentDistance == mju_norm3(sub3(d.xpos[Body2], d.xpos[Body1]))
RestLengthInUse ==
  IF obj.config_.rest_length >= 0 THEN obj.config_.rest_length
  ELSE mju_norm3(sub3(m.body_pos[Body2], m.body_pos[Body1]))
RelativeLinearVelocity == sub3(Tail3(d.vel6[Body2]), Tail3(d.vel6[Body1]))
LawForce ==
  scl3(UnitDirection,
       obj.config_.stiffness * (CurrentDistance - RestLengthInUse) * UnitScale
         + obj.config_.damping * dot3(RelativeLinearVelocity, UnitDirection))

\* C12: for two bodies at distinct positions, the force a Spring::Compute
\* call adds to body1 is unitDirection * (stiffness * (distance - restLength)
\* + damping * dot(relative linear velocity, unitDirection)).
C12_ForceLaw ==
  [][(IsSpringComputeStep /\ Body1 # Body2 /\ d.xpos[Body1] # d.xpos[Body2]) =>
       ForceIncrement(Body1) = LawForce]_vars

\* C12 where neither body rotates or moves and nothing lands outside the
\* velocity buffers
C12_ForceLawAtRest ==
  [][(IsSpringComputeStep /\ Body1 # Body2 /\ d.xpos[Body1] # d.xpos[Body2]
        /\ build.spill = "none"
        /\ d.vel6[Body1] = Vels0 /\ d.vel6[Body2] = Vels0) =>
       ForceIncrement(Body1) = LawForce]_vars

\* the worked example of C12: stiffness 100, rest length 1.0, separation 1.2,
\* zero velocity: magnitude 20.0 from body1 towards body2
C12_Example ==
  [][(IsSpringComputeStep /\ build.spill = "none"
        /\ obj.config_.stiffness = 100 /\ obj.config_.rest_length = LenScale
        /\ Body1 = 1 /\ Body2 = 2 /\ d.xpos[2] = <<12, 0, 0>>
        /\ d.vel6[1] = Vels0 /\ d.vel6[2] = Vels0) =>
       ForceIncrement(1) = <<20 * LenScale * UnitScale * UnitScale, 0, 0>>]_vars

-----------------------------------------------------------------------------
(* Claims about creation *)

IsInspectorInitStep ==
  /\ scene = "inspector" /\ ev'.cb = "init"
  /\ hist'.ninit = hist.ninit + 1

\* the path the claim names: the `file` attribute, or inspector.log
RequestedPath ==
  IF attr.file = NoAttr \/ attr.file = "" THEN "inspector.log" ELSE attr.file

ExpectedStream == IF attr.mode = "file" THEN RequestedPath ELSE STDOUT

\* C13: init of the Inspector opens a file iff mode = "file" (the `file`
\* attribute or inspector.log); a failed open gives return -1, no object and
\* an unwritten slot; any other mode gives an instance without file handle
\* whose lines go to the standard stream.
C13_SinkSelection ==
  [][/\ IsInspectorInitStep =>
          IF attr.mode = "file"
            THEN \/ /\ ev'.ret = 0 /\ d'.plugin_data # 0
                    /\ fs'.open = fs.open \cup {RequestedPath}
                    /\ obj'.file_ = RequestedPath
                 \/ /\ ev'.ret = -1 /\ d'.plugin_data = 0
                    /\ obj' = NoObj /\ fs' = fs
            ELSE /\ ev'.ret = 0 /\ d'.plugin_data # 0
                 /\ fs' = fs /\ obj'.file_ = NULL
     /\ scene = "inspector" =>
          \A i \in (Len(sink) + 1)..Len(sink') :
            sink'[i].to = ExpectedStream]_vars

\* a file-mode init whose open failed
C13_Witness ==
  /\ scene = "inspector" /\ attr.mode = "file"
  /\ ev.cb = "init" /\ ev.ret = -1
  /\ d.plugin_data = 0 /\ obj = NoObj /\ fs.open = {}

IsSpringInitStep ==
  /\ scene = "spring" /\ ev'.cb = "init"
  /\ hist'.ninit = hist.ninit + 1

Present(a) == a # NoAttr /\ a # ""
Resolves(name) == \E i \in 0..(m.nbody - 1) : m.body_name[i] = name

\* C14: init of the Spring succeeds iff body1 and body2 are both present,
\* non-empty and name a body of the model; then the stored handles are the
\* ids of those bodies; otherwise init returns -1, no instance exists and
\* the slot is left as it was.
C14_SpringConfigResolution ==
  [][IsSpringInitStep =>
       IF /\ Present(attr.body1) /\ Present(attr.body2)
          /\ Resolves(attr.body1) /\ Resolves(attr.body2)
         THEN /\ ev'.ret = 0 /\ d'.plugin_data # 0
              /\ obj'.config_.body1_id \in 0..(m.nbody - 1)
              /\ obj'.config_.body2_id \in 0..(m.nbody - 1)
              /\ m.body_name[obj'.config_.body1_id] = attr.body1
              /\ m.body_name[obj'.config_.body2_id] = attr.body2
         ELSE /\ ev'.ret = -1 /\ d' = d /\ d'.plugin_data = 0
              /\ obj' = NoObj]_vars

\* an init that resolved body1 = "b" and body2 = "a"
C14_Witness ==
  /\ scene = "spring" /\ attr.body1 = "b" /\ attr.body2 = "a"
  /\ ev.cb = "init" /\ ev.ret = 0 /\ d.plugin_data # 0
  /\ obj.config_.body1_id = 2 /\ obj.config_.body2_id = 1

\* an init refused because body2 names no body
C14_RefusedUnknownBody ==
  /\ scene = "spring" /\ attr.body1 = "a" /\ attr.body2 = "zz"
  /\ ev.cb = "init" /\ ev.ret = -1 /\ d.plugin_data = 0 /\ obj = NoObj

-----------------------------------------------------------------------------
(* Claims about the Spring's accumulators and rest length *)

\* the three force components of body b's accumulator
Force3(xfrc, b) == <<xfrc[b][1], xfrc[b][2], xfrc[b][3]>>
Torque3(xfrc, b) == <<xfrc[b][4], xfrc[b][5], xfrc[b][6]>>
Add3(a, b) == [i \in 1..3 |-> a[i] + b[i]]

\* the vector Spring::Compute applies, which reads no accumulator
AppliedForce == SpringLocals(obj).force_vec

\* C15: a Spring::Compute call adds its force to what body1's accumulator
\* held and subtracts it from what body2's held; the torque components of
\* every body and all components of every other body stay as they were.
C15_AdditiveAndConfined ==
  [][IsSpringComputeStep =>
       /\ Body1 # Body2 =>
            /\ Force3(d'.xfrc_applied, Body1)
                 = Add3(Force3(d.xfrc_applied, Body1), AppliedForce)
            /\ Force3(d'.xfrc_applied, Body2)
                 = Add3(Force3(d.xfrc_applied, Body2), scl3(AppliedForce, -1))
       /\ \A b \in 0..(m.nbody - 1) :
            /\ Torque3(d'.xfrc_applied, b) = Torque3(d.xfrc_applied, b)
            /\ b \notin {Body1, Body2} =>
                 d'.xfrc_applied[b] = d.xfrc_applied[b]]_vars

\* two calls on accumulators that another module had set to 7: body a holds
\* 7 plus twice the force of 20 towards b
C15_Witness ==
  /\ scene = "spring" /\ build.spill = "none" /\ d.plugin_data # 0
  /\ hist.ncompute = 2 /\ ev.cb = "compute"
  /\ obj.config_.body1_id = 1 /\ obj.config_.body2_id = 2
  /\ obj.config_.rest_length = LenScale /\ d.xpos[2] = <<12, 0, 0>>
  /\ d.vel6[1] = Vels0 /\ d.vel6[2] = Vels0
  /\ d.xfrc_applied[1] =
       <<7 + 2 * 20 * LenScale * UnitScale * UnitScale, 0, 0, 0, 0, 7>>
  /\ d.xfrc_applied[2] =
       <<7 - 2 * 20 * LenScale * UnitScale * UnitScale, 0, 0, 0, 0, 7>>
  /\ d.xfrc_applied[0] = <<7, 0, 0, 0, 0, 7>>

\* the rest length the claim names: the configured value when it is not
\* negative, otherwise the distance of the bodies' reference positions
ClaimedRestLength ==
  IF obj.config_.rest_length >= 0 THEN obj.config_.rest_length
  ELSE mju_norm3(sub3(m.body_pos[Body2], m.body_pos[Body1]))

C18_ZeroRestLengthUsed ==
  /\ scene = "spring" /\ attr.restlength = "0" /\ d.plugin_data # 0
  /\ Len(hist.calls) = 1 /\ hist.calls[1].rest_length = 0

-----------------------------------------------------------------------------
(* Claims about the PdFf channels *)

\* C16: after every PdFf::Compute call the force accumulators of the qref
\* and qdref actuators are 0, and the accumulator of every actuator that is
\* none of qref, qdref and the target is what it was before the call.
C16_InputChannelsCarryNoForce ==
  [][IsPdFfComputeStep =>
       /\ d'.actuator_force[obj.id_qref_] = 0
       /\ d'.actuator_force[obj.id_qdref_] = 0
       /\ \A i \in 0..(m.nu - 1) :
            i \notin {obj.id_qref_, obj.id_qdref_, obj.id_target_} =>
              d'.actuator_force[i] = d.actuator_force[i]]_vars

\* a call on accumulators that all held 5: the two input channels are at 0
\* and the actuator outside the binding still holds 5
C16_Witness ==
  /\ scene = "pdff" /\ d.plugin_data # 0 /\ ev.cb = "compute"
  /\ hist.ncompute = 1
  /\ obj.id_target_ = obj.id_tau_
  /\ d.actuator_force[obj.id_qref_] = 0
  /\ d.actuator_force[obj.id_qdref_] = 0
  /\ \E i \in 0..(m.nu - 1) :
       /\ i \notin {obj.id_qref_, obj.id_qdref_, obj.id_target_}
       /\ d.actuator_force[i] = 5

IsPdFfInitStep ==
  /\ scene = "pdff" /\ ev'.cb = "init"
  /\ hist'.ninit = hist.ninit + 1

\* the actuators of this instance whose name is the `target` attribute
OwnedNamedTarget ==
  { i \in 0..(m.nu - 1) :
      m.actuator_plugin[i] = instance /\ m.actuator_name[i] = attr.target }

\* C17: with a `target` attribute configured, a created instance is bound to
\* the actuator of this instance that bears exactly that name, whether or
\* not a _tau actuator exists; when no actuator of this instance bears it,
\* init fails and no instance exists.
C17_ExplicitTarget ==
  [][(IsPdFfInitStep /\ Present(attr.target)) =>
       /\ ev'.ret = 0 =>
            /\ obj'.id_target_ \in OwnedNamedTarget
            /\ d'.plugin_data # 0
       /\ OwnedNamedTarget = {} =>
            /\ ev'.ret = -1 /\ obj' = NoObj /\ d'.plugin_data = 0]_vars

\* created with target = "a_other" although a_tau is bound as the tau channel
C17_Witness ==
  /\ scene = "pdff" /\ attr.target = "a_other"
  /\ ev.cb = "init" /\ ev.ret = 0 /\ d.plugin_data # 0
  /\ obj.id_tau_ >= 0 /\ m.actuator_name[obj.id_tau_] = "a_tau"
  /\ obj.id_target_ # obj.id_tau_
  /\ m.actuator_name[obj.id_target_] = "a_other"

\* refused: the only actuator named like the target belongs to another instance
C17_RefusedForeignTarget ==
  /\ scene = "pdff" /\ attr.target = "a_other"
  /\ ev.cb = "init" /\ ev.ret = -1 /\ d.plugin_data = 0 /\ obj = NoObj
  /\ \E i \in 0..(m.nu - 1) :
       m.actuator_name[i] = "a_other" /\ m.actuator_plugin[i] # instance
  /\ \E i, j, k \in 0..(m.nu - 1) :
       /\ m.actuator_plugin[i] = instance /\ m.actuator_name[i] = "a_qref"
       /\ m.actuator_plugin[j] = instance /\ m.actuator_name[j] = "a_qdref"
       /\ m.actuator_plugin[k] = instance /\ m.actuator_name[k] = "a_tau"

-----------------------------------------------------------------------------
(* Claims about what the Inspector emits *)

\* the text of the lines of a stretch of output
LinesOf(out) == [i \in DOMAIN out |-> out[i].line]

HeaderLines == << <<"#", "inspector">>, <<"#", "joints">>, <<"#", "sensors">> >>

\* one line for each hinge or slide joint, in joint-index order
RECURSIVE ScalarJointLines(_)
ScalarJointLines(n) ==
  IF n = 0 THEN <<>>
  ELSE ScalarJointLines(n - 1) \o
       (IF m.jnt_type[n] \in {"HINGE", "SLIDE"} THEN << <<"J", n>> >> ELSE <<>>)

SensorLines == [s \in 1..m.nsensor |-> <<"S", s>>]

\* an earlier call of the instance emitted
EmittedBefore == \E i \in 1..Len(hist.calls) : hist.calls[i].emitted

IsEmittingStep ==
  /\ scene = "inspector" /\ d.plugin_data # 0
  /\ IsComputeStep
  /\ hist'.calls[Len(hist'.calls)].emitted

\* the output written by the step
Written == SubSeq(sink', Len(sink) + 1, Len(sink'))

\* the header is in the output once, at its start, ahead of every timestamp
HeaderOnceAndFirst(out) ==
  /\ Len(out) >= 3
  /\ \A i \in 1..3 : out[i].line = HeaderLines[i]
  /\ \A i \in 4..Len(out) : out[i].line[1] # "#"

\* C19: an emitting Compute call appends, in this order, the three header
\* lines (on the first emitting call of the instance only), one timestamp
\* line, one line per hinge or slide joint in joint-index order and none for
\* ball and free joints, one line per sensor in sensor-index order; the
\* output of the instance holds the header exactly once, before any
\* timestamp line.
C19_EmissionContentAndOrder ==
  [][IsEmittingStep =>
       /\ Len(sink') >= Len(sink) /\ SubSeq(sink', 1, Len(sink)) = sink
       /\ LinesOf(Written) =
            (IF EmittedBefore THEN <<>> ELSE HeaderLines)
              \o << <<"t", d.time>> >>
              \o ScalarJointLines(m.njnt)
              \o SensorLines
       /\ HeaderOnceAndFirst(sink')]_vars

\* two emitting calls on a model with a hinge, a ball and a slide joint and
\* two sensors: header, then t J1 J3 S1 S2 twice
C19_Witness ==
  /\ scene = "inspector" /\ d.plugin_data # 0 /\ ev.cb = "compute"
  /\ m.njnt = 3 /\ m.nsensor = 2
  /\ Len(hist.calls) = 2 /\ hist.calls[1].emitted /\ hist.calls[2].emitted
  /\ hist.calls[2].t > 0
  /\ LinesOf(sink) =
       HeaderLines
         \o << <<"t", 0>>, <<"J", 1>>, <<"J", 3>>, <<"S", 1>>, <<"S", 2>> >>
         \o << <<"t", hist.calls[2].t>>, <<"J", 1>>, <<"J", 3>>,
               <<"S", 1>>, <<"S", 2>> >>

-----------------------------------------------------------------------------
(* Claims about what compute leaves alone *)

\* a compute callback runs on a live instance of any of the three plugins
IsLiveComputeStep ==
  /\ scene \in {"inspector", "spring", "pdff"}
  /\ d.plugin_data # 0
  /\ IsComputeStep

\* C20: a compute call on a live instance modifies neither the Spring's
\* configuration and body handles, nor the PdFf's gains and four actuator
\* handles, nor the Inspector's configuration and sink; the only fields of
\* an instance it changes are the Inspector's last_emit_time_ and
\* header_emitted_.
C20_ImmutableAfterInit ==
  [][IsLiveComputeStep =>
       /\ scene \in {"spring", "pdff"} => obj' = obj
       /\ scene = "inspector" =>
            /\ obj' = [obj EXCEPT !.last_emit_time_ = obj'.last_emit_time_,
                                  !.header_emitted_ = obj'.header_emitted_]
            /\ fs' = fs
       /\ attr' = attr /\ m' = m]_vars

\* an Inspector with rate -5 writing to out.log, after calls at two times:
\* the two bookkeeping fields moved, the configuration and handle did not
C20_Witness ==
  /\ scene = "inspector" /\ d.plugin_data # 0 /\ ev.cb = "compute"
  /\ hist.ncompute >= 2
  /\ obj.header_emitted_ /\ obj.last_emit_time_ > 0
  /\ obj.config_ = InspectorConfig
  /\ obj.config_.rate_hz < 0
  /\ obj.file_ = "out.log" /\ "out.log" \in fs.open

\* a Spring after two calls with what FromModel resolved
C20_SpringWitness ==
  /\ scene = "spring" /\ d.plugin_data # 0 /\ ev.cb = "compute"
  /\ hist.ncompute = 2
  /\ obj = SpringCreate
  /\ obj.config_.body1_id # obj.config_.body2_id
  /\ Force3(d.xfrc_applied, obj.config_.body1_id) # <<0, 0, 0>>

\* a PdFf after two calls with the gains and handles Create bound
C20_PdFfWitness ==
  /\ scene = "pdff" /\ d.plugin_data # 0 /\ ev.cb = "compute"
  /\ hist.ncompute = 2
  /\ obj = PdFfCreate
  /\ attr.kp # NoAttr
  /\ obj.id_target_ # obj.id_tau_

-----------------------------------------------------------------------------
(* Claims about the PdFf binding without a target attribute, and with
   duplicate channel names *)

MatchesTau(i) ==
  EndsWithLower(ActName(i), "_tau") \/ EndsWithLower(ActName(i), ":tau")
MatchesQref(i) ==
  EndsWithLower(ActName(i), "_qref") \/ EndsWithLower(ActName(i), ":qref")

\* no target attribute, no actuator of the instance named by the tau
\* convention, and at least one actuator of the instance
FallbackCase ==
  /\ ~Present(attr.target)
  /\ \A i \in 0..(m.nu - 1) : Owned(i) => ~MatchesTau(i)
  /\ \E i \in 0..(m.nu - 1) : Owned(i)

\* C22: with no `target` attribute and no actuator of the instance matching
\* the tau convention, init yields an instance whose target is the first
\* actuator bound to the instance.
C22_FallbackTarget ==
  [][(IsPdFfInitStep /\ FallbackCase) =>
       /\ ev'.ret = 0 /\ d'.plugin_data # 0
       /\ obj'.id_target_ = FirstOwned(AnyActuator)]_vars

\* C22, selection only: in the fallback case the target index that Create
\* computes before its null returns is the first actuator of the instance.
C22_FallbackSelection ==
  (scene = "pdff" /\ FallbackCase) =>
    SelectTarget([target_actuator_name |-> ReadStringAttr("target")], Classify)
      = FirstOwned(AnyActuator)

\* C22, what happens: in the fallback case init returns -1 and the slot
\* stays empty.
C22_FallbackNeverCreated ==
  [][(IsPdFfInitStep /\ FallbackCase) =>
       (ev'.ret = -1 /\ d'.plugin_data = 0 /\ obj' = NoObj)]_vars

\* the actuators of the instance that match the qref convention
OwnedQref == { i \in 0..(m.nu - 1) : Owned(i) /\ MatchesQref(i) }

\* C23: when two or more actuators of the instance match the same channel
\* convention, the channel is bound to the first of them in enumeration
\* order, and creation does not fail because of the duplicate.
C23_FirstMatch ==
  [][(IsPdFfInitStep /\ Cardinality(OwnedQref) >= 2 /\ ev'.ret = 0) =>
       obj'.id_qref_ = CHOOSE i \in OwnedQref : \A j \in OwnedQref : i <= j]_vars

\* C23, what happens: the channel is bound to the last match.
C23_LastMatch ==
  [][(IsPdFfInitStep /\ Cardinality(OwnedQref) >= 2 /\ ev'.ret = 0) =>
       obj'.id_qref_ = CHOOSE i \in OwnedQref : \A j \in OwnedQref : i >= j]_vars

\* C23, second half: a duplicate alone does not make creation fail.
C23_DuplicateDoesNotFail ==
  [][(IsPdFfInitStep /\ Cardinality(OwnedQref) >= 2
        /\ ~Present(attr.target)
        /\ \E i, j \in 0..(m.nu - 1) :
             /\ Owned(i) /\ ActName(i) = "a_qdref"
             /\ Owned(j) /\ ActName(j) = "a_tau") =>
       (ev'.ret = 0 /\ d'.plugin_data # 0)]_vars

\* an instance created with two owned *qref actuators
C23_DuplicateCreated ==
  /\ scene = "pdff" /\ ev.cb = "init" /\ ev.ret = 0 /\ d.plugin_data # 0
  /\ Cardinality(OwnedQref) = 2
  /\ obj.id_qref_ = CHOOSE i \in OwnedQref : \A j \in OwnedQref : i >= j

-----------------------------------------------------------------------------
(* Claims about ControllerInterface::init *)

IsControllerInitStep == scene = "controller" /\ ~crashed /\ ev'.cb = "init"

\* an actuator without a name, or a sensor of a recognised type attached to
\* an object without a name
UnnamedActuators == { i \in 0..(m.nu - 1) : m.actuator_name[i] = NoAttr }
UnnamedSensorObjects ==
  { i \in SensorIds :
      /\ InitBucket(m.sensor_type[i]) # "none"
      /\ mj_id2name(m.sensor_objtype[i], m.sensor_objid[i]) = NoAttr }
HasAbsentName == UnnamedActuators # {} \/ UnnamedSensorObjects # {}

\* C21: init on a model in which an actuator, or the object a sensor is
\* attached to, has no name completes without fault, returns true, and
\* has a name recorded for every sensor record.
C21_AbsentNamesTolerated ==
  [][(IsControllerInitStep /\ HasAbsentName) =>
       /\ ~crashed' /\ ev'.ret = 1
       /\ \A b \in Buckets :
            DOMAIN ci'[NameMapOf[b]] = DOMAIN ci'[MapOf[b]]]_vars

\* C21, what happens: with an absent name init faults.
C21_AbsentNameFaults ==
  [][(IsControllerInitStep /\ HasAbsentName) => crashed']_vars

\* C21, the other models: with every name present init returns true.
C21_NamedModelsSucceed ==
  [][(IsControllerInitStep /\ ~HasAbsentName) =>
       (~crashed' /\ ev'.ret = 1)]_vars

-----------------------------------------------------------------------------
(* Claims about the sensor buffer offset *)

\* the sum of the declared dimensionalities of sensors 0..i-1
RECURSIVE OffsetOf(_)
OffsetOf(i) == IF i = 0 THEN 0 ELSE OffsetOf(i - 1) + m.sensor_dim[i - 1]

KeyOf(i) == MapId(m.sensor_objtype[i], m.sensor_objid[i])

\* the (sensor, assignment) pairs of one updateSensor call
SensorWrites ==
  { <<i, n>> \in SensorIds \X (1..2) :
      n <= Len(SwitchWrites(m.sensor_type[i])) }
WriteOf(p) == SwitchWrites(m.sensor_type[p[1]])[p[2]]

\* no later assignment of the call goes to the same field of the same record
LastWriter(p) ==
  \A q \in SensorWrites :
    (WriteOf(q)[1] = WriteOf(p)[1] /\ WriteOf(q)[2] = WriteOf(p)[2]
       /\ KeyOf(q[1]) = KeyOf(p[1])) =>
      (q[1] < p[1] \/ (q[1] = p[1] /\ q[2] <= p[2]))

\* the buffer elements from off on, as the field holds them
BufferAt(off, n) ==
  IF n = 1 THEN d.sensordata[off]
  ELSE [k \in 1..n |-> d.sensordata[off + k - 1]]

\* C24: in updateSensor the field written for sensor i holds the buffer
\* elements from the sum of the dimensionalities of sensors 0..i-1 on,
\* whatever the types of the sensors before it; a sensor of an unrecognised
\* type changes and creates no record; and the elements read for sensor i
\* lie in [offset, offset + dim(i)).
C24_SensorOffset ==
  [][IsUpdateSensorStep =>
       /\ \A p \in SensorWrites :
            LastWriter(p) =>
              /\ KeyOf(p[1]) \in DOMAIN ci'[MapOf[WriteOf(p)[1]]]
              /\ ci'[MapOf[WriteOf(p)[1]]][KeyOf(p[1])][WriteOf(p)[2]]
                   = BufferAt(OffsetOf(p[1]), WriteOf(p)[3])
       /\ \A p \in SensorWrites :
            /\ WriteOf(p)[3] <= m.sensor_dim[p[1]]
            /\ OffsetOf(p[1]) + WriteOf(p)[3] - 1 \in DOMAIN d.sensordata
       /\ \A b \in Buckets : \A k \in DOMAIN ci'[MapOf[b]] :
            (k \notin DOMAIN ci[MapOf[b]] \/ ci'[MapOf[b]][k] # ci[MapOf[b]][k])
              => \E p \in SensorWrites : WriteOf(p)[1] = b /\ KeyOf(p[1]) = k
       /\ \A b \in Buckets : DOMAIN ci[MapOf[b]] \subseteq DOMAIN ci'[MapOf[b]]]_vars

\* a TOUCH sensor (not recognised, one element) ahead of a JOINTPOS sensor:
\* the joint record holds the second element of the buffer, and the only
\* record is the joint's
C24_Witness ==
  /\ scene = "controller" /\ ev.cb = "updateSensor" /\ hist.ninit = 1
  /\ m.nsensor = 2
  /\ m.sensor_type[0] = "TOUCH" /\ m.sensor_type[1] = "JOINTPOS"
  /\ ci.joint_sensor_map_[KeyOf(1)].position = d.sensordata[1]
  /\ d.sensordata[1] # d.sensordata[0]
  /\ DOMAIN ci.joint_sensor_map_ = {KeyOf(1)}
  /\ DOMAIN ci.sensor_imu_map_ = {} /\ DOMAIN ci.state_frame_map_ = {}
  /\ DOMAIN ci.effort_sensor_map_ = {}

-----------------------------------------------------------------------------
(* Claims about compute on an empty slot *)

IsDeadComputeStep ==
  /\ scene \in {"inspector", "spring", "pdff"}
  /\ d.plugin_data = 0
  /\ hist.ninit = 1          \* init failed, or destroy already ran
  /\ IsComputeStep

\* C25: for each of the three plugins, a compute callback invoked while the
\* slot is 0 (init failed, or destroy already ran) dereferences nothing and
\* has no effect.
C25_ComputeSafeOnDeadSlot ==
  [][IsDeadComputeStep =>
       /\ ~ev'.deref /\ ~crashed'
       /\ d' = d /\ obj' = obj /\ sink' = sink /\ fs' = fs]_vars

\* C25, what happens: the callback calls Compute through the null slot.
C25_DeadSlotFaults ==
  [][IsDeadComputeStep => (ev'.deref /\ crashed')]_vars

\* compute after destroy, and compute after a failed init
C25_AfterDestroy ==
  /\ scene \in {"inspector", "spring", "pdff"}
  /\ ev.cb = "compute" /\ crashed /\ d.plugin_data = 0
  /\ hist.ninit = 1 /\ hist.ncompute >= 2

-----------------------------------------------------------------------------
(* Claims about the indices compute uses *)

\* C26: every access of Spring::Compute and PdFf::Compute is inside the
\* array it goes to: the local velocity buffers of Spring::Compute hold what
\* the velocity query writes into them, and the generalized-force index
\* that PdFf::Compute reads is a non-negative address.
C26_InRangeAccess ==
  [][/\ IsSpringComputeStep =>
          /\ Len(mj_objectVelocity(Body1)) <= VelBufferLen
          /\ Len(mj_objectVelocity(Body2)) <= VelBufferLen
     /\ IsPdFfComputeStep => obj.dof_adr >= 0]_vars

\* C26, the Spring alone
C26_VelocityBuffersLargeEnough ==
  [][IsSpringComputeStep =>
       /\ Len(mj_objectVelocity(Body1)) <= VelBufferLen
       /\ Len(mj_objectVelocity(Body2)) <= VelBufferLen]_vars

\* C26, the PdFf alone
C26_ForceIndexValid ==
  [][IsPdFfComputeStep => obj.dof_adr >= 0]_vars

\* C26, the host arrays: the body and actuator indices are those of
\* existing bodies and actuators
C26_HostArrayIndicesInRange ==
  [][/\ IsSpringComputeStep =>
          /\ {Body1, Body2} \subseteq 0..(m.nbody - 1)
          /\ {Body1, Body2} \subseteq DOMAIN d.xpos
          /\ {Body1, Body2} \subseteq DOMAIN d.xfrc_applied
     /\ IsPdFfComputeStep =>
          {obj.id_qref_, obj.id_qdref_, obj.id_tau_, obj.id_target_}
            \subseteq (0..(m.nu - 1)) \cap DOMAIN d.actuator_force]_vars

-----------------------------------------------------------------------------
(* Claims about the records of the ControllerInterface *)

IdxListOf == [joint |-> "joint_sensor_idx_", imu |-> "imu_sensor_idx_",
              frame |-> "frame_state_idx_", effort |-> "effort_sensor_idx_"]

Elements(seq) == { seq[i] : i \in DOMAIN seq }

\* the keys of the sensors of the model that init registers in bucket b
ModelKeys(b) == { KeyOf(i) : i \in { j \in SensorIds : InitBucket(m.sensor_type[j]) = b } }

\* C27: after init(m), updateSensor calls on the same model leave the key
\* set of each of the four bucket maps equal to the key set built by init
\* and to the bucket's index list.
C27_UpdateCreatesNoRecords ==
  (scene = "controller" /\ hist.ninit = 1 /\ ~crashed) =>
    \A b \in Buckets :
      /\ DOMAIN ci[MapOf[b]] = DOMAIN ci[NameMapOf[b]]
      /\ DOMAIN ci[MapOf[b]] = Elements(ci[IdxListOf[b]])

\* C27 for models without a magnetometer
C27_WithoutMagnetometer ==
  (scene = "controller" /\ hist.ninit = 1 /\ ~crashed
     /\ \A i \in SensorIds : m.sensor_type[i] # "MAGNETOMETER") =>
    \A b \in Buckets :
      /\ DOMAIN ci[MapOf[b]] = DOMAIN ci[NameMapOf[b]]
      /\ DOMAIN ci[MapOf[b]] = Elements(ci[IdxListOf[b]])

\* the record that updateSensor created: a frame record for a model whose
\* only sensor is a magnetometer
C27_FrameRecordCreated ==
  /\ scene = "controller" /\ hist.ninit = 1 /\ ~crashed
  /\ ev.cb = "updateSensor"
  /\ m.nsensor = 1 /\ m.sensor_type[0] = "MAGNETOMETER"
  /\ DOMAIN ci.frame_state_idx_2_name_ = {}
  /\ DOMAIN ci.state_frame_map_ = {KeyOf(0)}

\* the sensor half of C29
SensorStateOf(c) ==
  \A b \in Buckets :
    /\ DOMAIN c[MapOf[b]] = ModelKeys(b)
    /\ DOMAIN c[NameMapOf[b]] = ModelKeys(b)
    /\ Elements(c[IdxListOf[b]]) = ModelKeys(b)
    /\ Len(c[IdxListOf[b]]) = Cardinality(ModelKeys(b))

\* the actuator half of C29
ActuatorStateOf(c) ==
  /\ DOMAIN c.joint_control_inst_name_2_idx_ =
       { m.actuator_name[i] : i \in 0..(m.nu - 1) }
  /\ DOMAIN c.joint_do_ctrls_ = 0..(m.nu - 1)
  /\ \A i \in 0..(m.nu - 1) : c.joint_do_ctrls_[i] = FALSE
  /\ DOMAIN c.joint_cmd_ = 0..(m.nu - 1)
  /\ \A i \in 0..(m.nu - 1) : c.joint_cmd_[i] = JointCommand0

\* C29: after any sequence of init calls, possibly on different models, the
\* bucket maps, name maps and index lists hold exactly the sensors of the
\* model of the last call, the actuator name map holds exactly that model's
\* actuator names, every do-control flag is false and every joint command
\* is all zeros.
C29_ReinitNoStaleState ==
  [][(IsControllerInitStep /\ ~crashed') =>
       (SensorStateOf(ci') /\ ActuatorStateOf(ci'))]_vars

\* C29, the sensor half alone
C29_SensorRecordsFresh ==
  [][(IsControllerInitStep /\ ~crashed') => SensorStateOf(ci')]_vars

\* C29 while the host has loaded no other model
C29_SameModelReinit ==
  [][(IsControllerInitStep /\ ~crashed' /\ hist.nload = 0) =>
       (SensorStateOf(ci') /\ ActuatorStateOf(ci'))]_vars

\* init on the second model after updateSensor calls on the first: the
\* actuator name map still has the first model's names
C29_StaleNames ==
  /\ scene = "controller" /\ ev.cb = "init" /\ ~crashed
  /\ hist.nload = 1 /\ hist.ncompute >= 1
  /\ m = ReloadModel
  /\ DOMAIN ci.joint_control_inst_name_2_idx_ = {"motor0", "motor1", "wheel"}
  /\ SensorStateOf(ci)

-----------------------------------------------------------------------------
(* Claims about the Inspector after a reset *)

\* the time of the last emission of the instance, from the log of its calls
LastEmission == LastEmitBefore(hist.calls, Len(hist.calls) + 1)

\* a Compute call on the live instance after the host has reset time, with
\* a positive rate and an emission on record
IsComputeAfterRewind ==
  /\ scene = "inspector" /\ d.plugin_data # 0
  /\ IsComputeStep
  /\ hist.nreset >= 1
  /\ ConfiguredRate > 0
  /\ LastEmission >= 0

\* C28: reset does not clear last_emit_time_: after the host has rewound
\* time, with rate > 0, a Compute call at a time below the last emission
\* time plus 1/rate is skipped (in particular every call at a time below
\* the last emission time), and a call emits only once time has reached the
\* last emission time plus 1/rate.
C28_SkippedAfterRewind ==
  [][IsComputeAfterRewind =>
       /\ obj.last_emit_time_ = LastEmission
       /\ d.time < LastEmission => (sink' = sink /\ obj' = obj)
       /\ ~Due(d.time, LastEmission) => (sink' = sink /\ obj' = obj)
       /\ Due(d.time, LastEmission) =>
            (Len(sink') > Len(sink) /\ obj'.last_emit_time_ = d.time)]_vars

\* rate 20 (period 0.05): emission at 0.06, reset, a skipped call at 0.05
\* or below, and the next emission at 0.11
C28_Witness ==
  /\ scene = "inspector" /\ d.plugin_data # 0 /\ ev.cb = "compute"
  /\ ConfiguredRate = 20 /\ hist.nreset = 1
  /\ Len(hist.calls) = 3
  /\ hist.calls[1].t = 6 /\ hist.calls[1].emitted
  /\ hist.calls[2].t < 6 /\ ~hist.calls[2].emitted
  /\ hist.calls[3].t = 11 /\ hist.calls[3].emitted
  /\ obj.last_emit_time_ = 11

-----------------------------------------------------------------------------
(* Claims about repeated Spring::Compute calls *)

\* what every accumulator row held at the start: the scenes start all rows
\* equal, and body 0 (the world) is never one of the spring's bodies
InitialForce == Force3(d.xfrc_applied, 0)

\* the Compute calls made on the live instance so far
CallsSoFar == Len(hist.calls)

\* C30: Spring::Compute never clears the accumulators: after k Compute calls
\* with no clear by the host and the body state unchanged, body1's force
\* accumulator is its initial value plus k times the force of one call and
\* body2's is its initial value minus k times that force.
C30_AccumulatesOverCalls ==
  (scene = "spring" /\ d.plugin_data # 0 /\ ~crashed /\ Body1 # Body2) =>
    /\ Force3(d.xfrc_applied, Body1)
         = Add3(InitialForce, scl3(AppliedForce, CallsSoFar))
    /\ Force3(d.xfrc_applied, Body2)
         = Add3(InitialForce, scl3(AppliedForce, 0 - CallsSoFar))

\* three calls of a spring of stiffness 100 stretched by 0.2 between a and
\* b, on accumulators preset to 7: 7 + 3*20 and 7 - 3*20
C30_Witness ==
  /\ scene = "spring" /\ build.spill = "none" /\ d.plugin_data # 0
  /\ ~crashed /\ ev.cb = "compute"
  /\ CallsSoFar = 3
  /\ Body1 = 1 /\ Body2 = 2
  /\ AppliedForce = <<20 * LenScale * UnitScale * UnitScale, 0, 0>>
  /\ InitialForce = <<7, 0, 0>>
  /\ Force3(d.xfrc_applied, 1) =
       <<7 + 3 * 20 * LenScale * UnitScale * UnitScale, 0, 0>>
  /\ Force3(d.xfrc_applied, 2) =
       <<7 - 3 * 20 * LenScale * UnitScale * UnitScale, 0, 0>>

====
